---------------------------- MODULE Spec2Model ----------------------------
(***************************************************************************)
(* WorkChain Security Core: the threat engine of                           *)
(* services/cpp/threat-engine/ThreatEngine.{hpp,cpp} and the tenant-bound  *)
(* AES-256-GCM envelope of services/c/crypto-core/crypto.{h,c}.            *)
(*                                                                         *)
(* Time is std::chrono::high_resolution_clock read in milliseconds since   *)
(* the clock's epoch.  A C++ float is a pair <<m, e>> standing for         *)
(* m * 2^e with 2^23 <= m < 2^24 (or <<0, 0>> for 0.0f); every operation   *)
(* rounds to nearest, ties to even, as IEEE-754 binary32 does.             *)
(***************************************************************************)
EXTENDS Integers, Sequences, FiniteSets, TLC

VARIABLES
    now,                \* the clock, ms since its epoch
    initialized,        \* NanoSecurityMesh::initialized
    max_history_size,   \* BehaviorAnalyzer::max_history_size
    history,            \* BehaviorAnalyzer::history, client_id -> ClientHistory
    bulk,               \* further client records of `history`, kept as a block
    default_rps,        \* RateLimitingPolicy::default_rps
    policies,           \* RateLimitingPolicy::policies, client_id -> ClientPolicy
    thresholds,         \* AdaptiveThresholdManager::thresholds
    hit_counts,         \* AdaptiveThresholdManager::hit_counts
    isolated_clients,   \* ThreatResponseEngine::isolated_clients
    ev,                 \* the last call: its arguments, what it read, its result
    seen,               \* per client: what the calls so far have shown
    ncalls,             \* number of calls made so far
    envelope,           \* crypto-core: the context and the caller's buffers
    threads             \* threads inside checkLimit, and policy_mutex

vars == <<now, initialized, max_history_size, history, bulk, default_rps,
          policies, thresholds, hit_counts, isolated_clients, ev, seen, ncalls,
          envelope, threads>>

-----------------------------------------------------------------------------
(* Bounds of the exploration *)

MaxCalls == 5           \* calls made to a component in one behaviour
MaxHistorySize == 2     \* largest history_size a BehaviorAnalyzer is built with

Clients == {"c1", "c2"}

-----------------------------------------------------------------------------
(* float (IEEE-754 binary32), non-negative values *)

TwoP23 == 2^23
TwoP24 == 2^24

F32Zero == <<0, 0>>

\* how many low bits n (>= 2^23) loses to become a 24-bit mantissa
DropBits(n) ==
    CHOOSE k \in 0..7 : (n \div (2^k)) >= TwoP23 /\ (n \div (2^k)) < TwoP24

\* how many bits n (< 2^23) is shifted left to become a 24-bit mantissa
LiftBits(n) ==
    CHOOSE k \in 0..23 : /\ (2^k) <= TwoP24 \div n
                         /\ n * (2^k) >= TwoP23
                         /\ n * (2^k) < TwoP24

\* the float nearest to (n + d) * 2^e, where 0 < d < 1 if sticky, else d = 0
F32Round(n, e, sticky) ==
    IF n = 0 THEN F32Zero
    ELSE IF n < TwoP23 THEN <<n * (2^LiftBits(n)), e - LiftBits(n)>>
    ELSE IF n < TwoP24 THEN <<n, e>>
    ELSE LET k    == DropBits(n)
             q    == n \div (2^k)
             r    == n % (2^k)
             half == 2^(k - 1)
             up   == r > half \/ (r = half /\ (sticky \/ q % 2 = 1))
             q1   == IF up THEN q + 1 ELSE q
         IN  IF q1 = TwoP24 THEN <<TwoP23, e + k + 1>> ELSE <<q1, e + k>>

\* static_cast<float>(k) of an unsigned integer
F32FromInt(k) == F32Round(k, 0, FALSE)

RatioShift(n, d) ==
    CHOOSE s \in 0..30 : /\ (2^s) <= 2147483647 \div n
                         /\ n * (2^s) >= d * 33554432
                         /\ n * (2^s) < d * 67108864

\* float(n) / float(d) for small integers (d <= 31); also the float literal
\* whose decimal value is n/d
F32Ratio(n, d) ==
    IF n = 0 THEN F32Zero
    ELSE LET s == RatioShift(n, d)
         IN  F32Round((n * (2^s)) \div d, 0 - s, ((n * (2^s)) % d) # 0)

\* x * y: the 48-bit product of the mantissas in 12-bit limbs
F32Mul(x, y) ==
    IF x[1] = 0 \/ y[1] = 0 THEN F32Zero
    ELSE LET a    == x[1] \div 4096
             b    == x[1] % 4096
             c    == y[1] \div 4096
             d    == y[1] % 4096
             mid  == a * d + b * c
             low  == (mid % 4096) * 4096 + b * d
             L    == low % TwoP24
             high == a * c + (mid \div 4096) + (low \div TwoP24)
             e    == x[2] + y[2]
         IN  IF high >= TwoP23
             THEN LET up == L > TwoP23 \/ (L = TwoP23 /\ high % 2 = 1)
                      q1 == IF up THEN high + 1 ELSE high
                  IN  IF q1 = TwoP24 THEN <<TwoP23, e + 25>> ELSE <<q1, e + 24>>
             ELSE LET q  == high * 2 + (L \div TwoP23)
                      r  == L % TwoP23
                      up == r > 4194304 \/ (r = 4194304 /\ q % 2 = 1)
                      q1 == IF up THEN q + 1 ELSE q
                  IN  IF q1 = TwoP24 THEN <<TwoP23, e + 24>> ELSE <<q1, e + 23>>

\* x + y for nonzero x, y with x[2] >= y[2]
F32AddOrdered(x, y) ==
    LET d == x[2] - y[2]
    IN  IF d <= 6 THEN F32Round(x[1] * (2^d) + y[1], y[2], FALSE)
        ELSE IF d - 6 >= 24 THEN F32Round(x[1] * 64, x[2] - 6, TRUE)
        ELSE F32Round(x[1] * 64 + (y[1] \div (2^(d - 6))), x[2] - 6,
                      (y[1] % (2^(d - 6))) # 0)

F32Add(x, y) ==
    IF x[1] = 0 THEN y
    ELSE IF y[1] = 0 THEN x
    ELSE IF x[2] >= y[2] THEN F32AddOrdered(x, y) ELSE F32AddOrdered(y, x)

F32Lt(x, y) ==
    IF y[1] = 0 THEN FALSE
    ELSE IF x[1] = 0 THEN TRUE
    ELSE x[2] < y[2] \/ (x[2] = y[2] /\ x[1] < y[1])

F32Gt(x, y) == F32Lt(y, x)

\* std::min(a, b) and std::max(a, b)
F32Min(a, b) == IF F32Lt(b, a) THEN b ELSE a
F32Max(a, b) == IF F32Lt(a, b) THEN b ELSE a

F32One == F32FromInt(1)

-----------------------------------------------------------------------------
(* Data model (ThreatEngine.hpp) *)

SAFE == 0
LOW == 1
MEDIUM == 2
HIGH == 3
CRITICAL == 4

NORMAL == 0
RAPID_FAILURES == 1
ENUMERATION == 2
PAYLOAD_INJECTION == 3
TIMING_ATTACK == 4
RESOURCE_ABUSE == 5

\* a default-constructed TimePoint
Epoch == 0

\* std::map<std::string, double> indicators: no entry, or "resource_usage"
\* with a value in hundredths
NoIndicators == [k \in {} |-> 0]
Indicators(usage) == [k \in {"resource_usage"} |-> usage]

BehaviorMetrics(c, r, t, p, conf, ind) ==
    [client_id |-> c, resource_id |-> r, timestamp |-> t, pattern |-> p,
     confidence |-> conf, indicators |-> ind]

\* what history[client_id] creates for a client it does not hold
NewClientHistory == [behaviors |-> <<>>, first_seen |-> Epoch, last_seen |-> Epoch]

\* integer division truncating toward zero (C++ '/', duration_cast)
TruncDiv(a, b) == IF a >= 0 THEN a \div b ELSE 0 - ((0 - a) \div b)

-----------------------------------------------------------------------------
(* BehaviorAnalyzer: the behavior store *)

MS_PER_HOUR == 3600000
STALE_HOURS == 24
GC_CLIENTS == 10000

\* history.size(): the clients held one by one and the block of further ones
HistorySize(h, b) == Cardinality(DOMAIN h) + b.count

\* duration_cast<std::chrono::hours>(now - last_seen).count()
IdleHours(t, last_seen) == TruncDiv(t - last_seen, MS_PER_HOUR)

IsStale(t, last_seen) == IdleHours(t, last_seen) > STALE_HOURS

cleanupStaleHistory(h, t) ==
    [c \in {k \in DOMAIN h : ~IsStale(t, h[k].last_seen)} |-> h[c]]

cleanupStaleBulk(b, t) ==
    IF b.count > 0 /\ IsStale(t, b.last_seen) THEN [b EXCEPT !.count = 0] ELSE b

\* recordBehavior, lines 61-64
AutoCleanup(h, b, t) ==
    IF HistorySize(h, b) > GC_CLIENTS THEN cleanupStaleHistory(h, t) ELSE h

AutoCleanupBulk(h, b, t) ==
    IF HistorySize(h, b) > GC_CLIENTS THEN cleanupStaleBulk(b, t) ELSE b

\* recordBehavior, line 66: auto& client_hist = history[metrics.client_id]
ClientHist(h, c) == IF c \in DOMAIN h THEN h[c] ELSE NewClientHistory

\* first_seen set by every record, not by the first one only
FirstSeenAlways(ch, m) == m.timestamp

\* recordBehavior, lines 68-70
FirstSeenOnRecord(ch, m) ==
    IF Len(ch.behaviors) = 0 THEN m.timestamp ELSE ch.first_seen

\* a window that gives up its newest element, not its oldest
EvictNewest(behaviors, max) ==
    IF Len(behaviors) > max THEN SubSeq(behaviors, 1, Len(behaviors) - 1)
    ELSE behaviors

\* recordBehavior, lines 75-78
SlidingWindow(behaviors, max) ==
    IF Len(behaviors) > max THEN Tail(behaviors) ELSE behaviors

\* a record that moves first_seen to the front of the window
RecordIntoFrontSeen(ch, m, max) ==
    LET bs == SlidingWindow(Append(ch.behaviors, m), max)
    IN  [behaviors  |-> bs,
         first_seen |-> IF Len(bs) > 0 THEN bs[1].timestamp ELSE m.timestamp,
         last_seen  |-> m.timestamp]

\* recordBehavior, lines 66-78, on the client's record
RecordInto(ch, m, max) ==
    [behaviors  |-> SlidingWindow(Append(ch.behaviors, m), max),
     first_seen |-> FirstSeenOnRecord(ch, m),
     last_seen  |-> m.timestamp]

recordBehavior(h, b, m, max, t) ==
    LET h1 == AutoCleanup(h, b, t)
    IN  [c \in DOMAIN h1 \cup {m.client_id} |->
            IF c = m.client_id THEN RecordInto(ClientHist(h1, c), m, max)
            ELSE h1[c]]

-----------------------------------------------------------------------------
(* BehaviorAnalyzer: the anomaly scorer *)

RAPID_WINDOW_MS == 60000

\* the float literals of analyzeBehavior and of the calculate* functions
W_RAPID    == F32Ratio(1, 4)     \* 0.25f
W_ENUM     == F32Ratio(1, 4)     \* 0.25f
W_PAYLOAD  == F32Ratio(3, 10)    \* 0.30f
W_TIMING   == F32Ratio(1, 10)    \* 0.10f
W_RESOURCE == F32Ratio(1, 10)    \* 0.10f
DETECT     == F32Ratio(7, 10)    \* 0.7f
FAIL_CONF  == F32Ratio(4, 5)     \* 0.8f
BOT_SCORE  == F32Ratio(9, 10)    \* 0.9f
USAGE_HIGH == 80                 \* 0.8, in hundredths

\* the loop of calculateRapidFailureScore from behaviors[i] down to the
\* oldest: it stops at the first behavior older than the window
RECURSIVE FailuresFrom(_, _, _)
FailuresFrom(behaviors, i, t) ==
    IF i = 0 THEN 0
    ELSE IF t - behaviors[i].timestamp > RAPID_WINDOW_MS THEN 0
    ELSE (IF F32Gt(behaviors[i].confidence, FAIL_CONF) THEN 1 ELSE 0)
         + FailuresFrom(behaviors, i - 1, t)

\* counts the failures stamped with the very reading of the clock only
RapidScoreAtInstant(ch, t) ==
    IF Len(ch.behaviors) < 3 THEN F32Zero
    ELSE F32Min(F32Ratio(Cardinality({i \in 1..Len(ch.behaviors) :
                    /\ ch.behaviors[i].timestamp = t
                    /\ F32Gt(ch.behaviors[i].confidence, FAIL_CONF)}), 5),
                F32One)

\* a score that needs ten failures to saturate
RapidScoreOfTen(ch, t) ==
    IF Len(ch.behaviors) < 3 THEN F32Zero
    ELSE F32Min(F32Ratio(FailuresFrom(ch.behaviors, Len(ch.behaviors), t), 10),
                F32One)

calculateRapidFailureScore(ch, t) ==
    IF Len(ch.behaviors) < 3 THEN F32Zero
    ELSE F32Min(F32Ratio(FailuresFrom(ch.behaviors, Len(ch.behaviors), t), 5),
                F32One)

UniquePaths(behaviors) ==
    Cardinality({behaviors[i].resource_id : i \in
                    {j \in 1..Len(behaviors) : behaviors[j].resource_id # ""}})

calculateEnumerationScore(ch) ==
    IF Len(ch.behaviors) < 5 THEN F32Zero
    ELSE F32Min(F32Ratio(UniquePaths(ch.behaviors), 20), F32One)

\* a payload score taken from the newest behavior alone
PayloadScoreOfNewest(ch) ==
    IF Len(ch.behaviors) > 0
       /\ ch.behaviors[Len(ch.behaviors)].pattern = PAYLOAD_INJECTION
    THEN F32One ELSE F32Zero

calculatePayloadScore(ch) ==
    IF \E i \in 1..Len(ch.behaviors) : ch.behaviors[i].pattern = PAYLOAD_INJECTION
    THEN F32One ELSE F32Zero

\* the inter-arrival deltas, ms
Intervals(behaviors) ==
    [i \in 1..(Len(behaviors) - 1) |->
        behaviors[i + 1].timestamp - behaviors[i].timestamp]

RECURSIVE SeqSum(_)
SeqSum(q) == IF Len(q) = 0 THEN 0 ELSE Head(q) + SeqSum(Tail(q))

SeqMin(q) == CHOOSE x \in {q[i] : i \in 1..Len(q)} :
                \A i \in 1..Len(q) : x <= q[i]
SeqMax(q) == CHOOSE x \in {q[i] : i \in 1..Len(q)} :
                \A i \in 1..Len(q) : x >= q[i]

\* std_dev < 10.0, that is variance < 100: n * sum(d^2) - sum(d)^2 < 100 n^2.
\* The variance is at least (max - min)^2 / (2n), so a range of 1500 ms or
\* more (n <= 10000) decides it; below that the sums are taken of the deltas
\* less their minimum, which leaves the variance as it is.
LowJitter(d) ==
    LET n  == Len(d)
        lo == SeqMin(d)
        y  == [i \in 1..n |-> d[i] - lo]
        y2 == [i \in 1..n |-> y[i] * y[i]]
    IN  IF SeqMax(d) - lo >= 1500 THEN FALSE
        ELSE n * SeqSum(y2) - SeqSum(y) * SeqSum(y) < 100 * n * n

calculateTimingScore(ch) ==
    IF Len(ch.behaviors) < 10 THEN F32Zero
    ELSE IF LowJitter(Intervals(ch.behaviors)) THEN BOT_SCORE ELSE F32Zero

HighResource(b) ==
    "resource_usage" \in DOMAIN b.indicators
        /\ b.indicators["resource_usage"] > USAGE_HIGH

calculateResourceScore(ch) ==
    IF Len(ch.behaviors) < 5 THEN F32Zero
    ELSE F32Min(F32Ratio(Cardinality({i \in 1..Len(ch.behaviors) :
                                         HighResource(ch.behaviors[i])}), 10),
                F32One)

\* the five sub-scores with the clock read as t, indexed by BehaviorPattern
SubScores(ch, t) ==
    <<calculateRapidFailureScore(ch, t), calculateEnumerationScore(ch),
      calculatePayloadScore(ch), calculateTimingScore(ch),
      calculateResourceScore(ch)>>

Weights == <<W_RAPID, W_ENUM, W_PAYLOAD, W_TIMING, W_RESOURCE>>

\* analyzeBehavior, lines 106-113
TotalScore(sub) ==
    LET t1 == F32Add(F32Zero, F32Mul(sub[1], Weights[1]))
        t2 == F32Add(t1, F32Mul(sub[2], Weights[2]))
        t3 == F32Add(t2, F32Mul(sub[3], Weights[3]))
        t4 == F32Add(t3, F32Mul(sub[4], Weights[4]))
        t5 == F32Add(t4, F32Mul(sub[5], Weights[5]))
    IN  F32Min(t5, F32One)

\* analyzeBehavior, lines 115-120: in the order of the push_backs
DetectedPatterns(sub) ==
    SelectSeq(<<RAPID_FAILURES, ENUMERATION, PAYLOAD_INJECTION, TIMING_ATTACK,
                RESOURCE_ABUSE>>, LAMBDA p : F32Gt(sub[p], DETECT))

\* bands whose LOW begins above 0.15
LevelOfEarlyLow(score) ==
    IF F32Gt(score, F32Ratio(9, 10)) THEN CRITICAL
    ELSE IF F32Gt(score, F32Ratio(3, 4)) THEN HIGH
    ELSE IF F32Gt(score, F32Ratio(1, 2)) THEN MEDIUM
    ELSE IF F32Gt(score, F32Ratio(3, 20)) THEN LOW
    ELSE SAFE

\* bands whose HIGH begins above 0.65
LevelOfEarlyHigh(score) ==
    IF F32Gt(score, F32Ratio(9, 10)) THEN CRITICAL
    ELSE IF F32Gt(score, F32Ratio(13, 20)) THEN HIGH
    ELSE IF F32Gt(score, F32Ratio(1, 2)) THEN MEDIUM
    ELSE IF F32Gt(score, F32Ratio(1, 4)) THEN LOW
    ELSE SAFE

\* analyzeBehavior, lines 122-126
LevelOf(score) ==
    IF F32Gt(score, F32Ratio(9, 10)) THEN CRITICAL
    ELSE IF F32Gt(score, F32Ratio(3, 4)) THEN HIGH
    ELSE IF F32Gt(score, F32Ratio(1, 2)) THEN MEDIUM
    ELSE IF F32Gt(score, F32Ratio(1, 4)) THEN LOW
    ELSE SAFE

\* analyzeBehavior: the clock reads t1 while the score is summed, t2 while the
\* patterns are collected (calculateRapidFailureScore reads it each time) and
\* t3 for the result's timestamp; the sub-scores are functions of the history
\* and the reading, so equal readings give the same sub-scores
AnomalyScore(c, final_score, patterns, t) ==
    [client_id |-> c, score |-> final_score, level |-> LevelOf(final_score),
     detected_patterns |-> patterns, timestamp |-> t]

analyzeBehavior(h, c, t1, t2, t3) ==
    IF c \notin DOMAIN h \/ Len(h[c].behaviors) = 0
    THEN [client_id |-> c, score |-> F32Zero, level |-> SAFE,
          detected_patterns |-> <<>>, timestamp |-> t1]
    ELSE CHOOSE anomaly \in
            {AnomalyScore(c, TotalScore(sub),
                          DetectedPatterns(IF t2 = t1 THEN sub
                                           ELSE SubScores(h[c], t2)), t3) :
                sub \in {SubScores(h[c], t1)}} : TRUE

-----------------------------------------------------------------------------
(* RateLimitingPolicy *)

MS_PER_SECOND == 1000

\* what policies[client_id] creates for a client it does not hold
NewClientPolicy ==
    [requests_per_second |-> 0, last_reset |-> Epoch, request_count |-> 0]

PolicyOf(pol, c) == IF c \in DOMAIN pol THEN pol[c] ELSE NewClientPolicy

\* checkLimit, line 276
WithDefaultRps(p, rps) ==
    IF p.requests_per_second = 0 THEN [p EXCEPT !.requests_per_second = rps]
    ELSE p

\* a window that ends only when more than a second has passed
WindowElapsedStrictly(p, t) == t - p.last_reset > MS_PER_SECOND

\* checkLimit, lines 278-281
WindowElapsed(p, t) == TruncDiv(t - p.last_reset, MS_PER_SECOND) >= 1

WithWindow(p, t) ==
    IF WindowElapsed(p, t) THEN [p EXCEPT !.request_count = 0, !.last_reset = t]
    ELSE p

\* the policy as line 283 finds it
PolicyAtCheck(pol, c, rps, t) == WithWindow(WithDefaultRps(PolicyOf(pol, c), rps), t)

\* checkLimit, lines 283-288: the value returned
LimitOk(p) == ~(p.request_count >= p.requests_per_second)

\* a limiter that counts the calls it denies as well
checkLimitCountingDenials(pol, c, rps, t) ==
    LET p == PolicyAtCheck(pol, c, rps, t)
    IN  [k \in DOMAIN pol \cup {c} |->
            IF k # c THEN pol[k] ELSE [p EXCEPT !.request_count = @ + 1]]

checkLimit(pol, c, rps, t) ==
    LET p == PolicyAtCheck(pol, c, rps, t)
    IN  [k \in DOMAIN pol \cup {c} |->
            IF k # c THEN pol[k]
            ELSE IF LimitOk(p) THEN [p EXCEPT !.request_count = @ + 1]
            ELSE p]

\* policy_mutex is free: std::lock_guard<std::mutex> lock(policy_mutex), line
\* 270, blocks while another thread holds it
MutexTakenAnyway(holder) == TRUE

MutexFree(holder) == holder = <<>>

\* policies[client_id] as lines 272-281 leave the map: the entry made if it
\* was missing, the default cap filled in, the window reset if it has ended
Prepared(pol, c, rps, t) ==
    [k \in DOMAIN pol \cup {c} |->
        IF k = c THEN PolicyAtCheck(pol, c, rps, t) ELSE pol[k]]

\* policy.request_count++, line 287, as a load and a store: the store
WithCount(pol, c, count) == [pol EXCEPT ![c].request_count = count]

\* no thread is inside checkLimit
NoThreads == [holder |-> <<>>, remaining |-> 0, base |-> 0, at |-> <<>>]

MaxOf(a, b) == IF a >= b THEN a ELSE b

\* enforceDynamicLimits, lines 295-299: the cap of the anomaly's client
DynamicCap(cap, level, rps) ==
    IF level >= HIGH THEN MaxOf(1, rps \div 10)
    ELSE IF level >= MEDIUM THEN MaxOf(5, rps \div 5)
    ELSE cap

enforceDynamicLimits(pol, anomaly, rps) ==
    [k \in DOMAIN pol \cup {anomaly.client_id} |->
        IF k # anomaly.client_id THEN pol[k]
        ELSE [PolicyOf(pol, k) EXCEPT !.requests_per_second =
                    DynamicCap(@, anomaly.level, rps)]]

-----------------------------------------------------------------------------
(* AdaptiveThresholdManager *)

\* thresholds[metric] of a std::map<std::string, float>: 0.0f when absent
ThresholdAt(thr, metric) == IF metric \in DOMAIN thr THEN thr[metric] ELSE F32Zero

\* hit_counts[std::to_string(static_cast<int>(level))]++
CountHit(hits, level) ==
    [k \in DOMAIN hits \cup {ToString(level)} |->
        IF k = ToString(level)
        THEN (IF k \in DOMAIN hits THEN hits[k] ELSE 0) + 1
        ELSE hits[k]]

\* reinforceThresholds, lines 246-249
Hardened(thr) ==
    [k \in DOMAIN thr \cup {"rate_limit", "anomaly_score"} |->
        CASE k = "rate_limit" ->
                F32Max(F32FromInt(10), F32Mul(ThresholdAt(thr, k), F32Ratio(9, 10)))
          [] k = "anomaly_score" ->
                F32Max(F32Ratio(1, 5), F32Mul(ThresholdAt(thr, k), F32Ratio(19, 20)))
          [] OTHER -> thr[k]]

reinforceThresholds(thr, anomaly) ==
    IF anomaly.level >= HIGH THEN Hardened(thr) ELSE thr

\* updateThreshold: thresholds[metric] = new_threshold, whatever the value
updateThreshold(thr, metric, new_threshold) ==
    [k \in DOMAIN thr \cup {metric} |->
        IF k = metric THEN new_threshold ELSE thr[k]]

\* getThreshold: 0.5f for a metric the map does not hold
getThreshold(thr, metric) ==
    IF metric \in DOMAIN thr THEN thr[metric] ELSE F32Ratio(1, 2)

\* resetThresholds: both maps cleared, "rate_limit" alone restored
resetThresholds == [k \in {"rate_limit"} |-> F32FromInt(100)]

-----------------------------------------------------------------------------
(* ThreatResponseEngine *)

isolateClient(isolated, c, level, t) ==
    Append(isolated,
           [client_id |-> c, level |-> level, isolation_start |-> t,
            reason |-> "Threat level exceeded CRITICAL threshold - ISOLATION ENFORCED"])

\* a response that isolates from HIGH on
respondToThreatFromHigh(isolated, anomaly, t) ==
    IF anomaly.level >= HIGH
    THEN isolateClient(isolated, anomaly.client_id, anomaly.level, t)
    ELSE isolated

\* respondToThreat: throttleClient and generateAlert write to std::cout only
respondToThreat(isolated, anomaly, t) ==
    IF anomaly.level >= CRITICAL
    THEN isolateClient(isolated, anomaly.client_id, anomaly.level, t)
    ELSE isolated

-----------------------------------------------------------------------------
(* NanoSecurityMesh *)

\* a decision by the level alone, the detected patterns not looked at
DecideOnLevel(anomaly) == ~(anomaly.level >= CRITICAL)

\* processRequest, lines 394-403: TRUE allows
FilteringDecision(anomaly) ==
    /\ ~(anomaly.level >= CRITICAL)
    /\ ~(\E i \in 1..Len(anomaly.detected_patterns) :
            anomaly.detected_patterns[i] = PAYLOAD_INJECTION)

\* a response to every level above SAFE
RespondsFromLow(anomaly) == anomaly.level >= LOW

\* processRequest, line 387
Responds(anomaly) == anomaly.level >= MEDIUM

\* the calls processRequest makes to its members, in the order of its
\* statements: lines 378, 383, 384 and, under the test of line 387, 388-390
CallsToLimiter == <<"checkLimit">>
CallsToAnalyzer == <<"recordBehavior", "analyzeBehavior">>
CallsOfResponse == <<"reinforceThresholds", "enforceDynamicLimits", "respondToThreat">>

\* processRequest, lines 386-403, on the members S of the mesh, the
\* observation recorded and the anomaly computed; the clock reads t
RespondAndDecide(S, anomaly, t) ==
    [state |->
        IF Responds(anomaly)
        THEN [S EXCEPT
                !.hit_counts = CountHit(@, anomaly.level),
                !.thresholds = reinforceThresholds(@, anomaly),
                !.policies = enforceDynamicLimits(@, anomaly, S.default_rps),
                !.isolated_clients = respondToThreat(@, anomaly, t)]
        ELSE S,
     result |-> FilteringDecision(anomaly),
     limit_ok |-> TRUE,
     anomaly |-> <<anomaly>>,
     calls |-> CallsToLimiter \o CallsToAnalyzer \o
               (IF Responds(anomaly) THEN CallsOfResponse ELSE <<>>)]

\* processRequest, lines 383-384, on the members S of the mesh
WithRecord(S, m, t) ==
    [S EXCEPT !.history = recordBehavior(@, S.bulk, m, S.max_history_size, t),
              !.bulk = AutoCleanupBulk(S.history, @, t)]

\* processRequest, lines 383-403: the clock reads t1 up to the summing of
\* the score and t2 from then on
AnalyzeAndRespond(S, c, m, t1, t2) ==
    CHOOSE out \in
        {RespondAndDecide(S1, anomaly, t2) :
            S1 \in {WithRecord(S, m, t1)},
            anomaly \in {analyzeBehavior(
                            recordBehavior(S.history, S.bulk, m,
                                           S.max_history_size, t1),
                            c, t1, t2, t2)}} : TRUE

\* checkLimit(c) on the members S of the mesh
Checked(S, c, t) == [S EXCEPT !.policies = checkLimit(@, c, S.default_rps, t)]

\* a mesh that takes every request through its members, initialized or not
NeverFailsOpen(S) == FALSE

\* processRequest, line 375: if (!initialized) return true
FailsOpen(S) == ~S.initialized

\* a mesh that asks the limiter before it looks at `initialized`
processRequestLimitingFirst(S, c, m, t1, t2) ==
    IF ~LimitOk(PolicyAtCheck(S.policies, c, S.default_rps, t1))
    THEN [state |-> Checked(S, c, t1), result |-> FALSE, limit_ok |-> FALSE,
          anomaly |-> <<>>, calls |-> CallsToLimiter]
    ELSE IF FailsOpen(S)
    THEN [state |-> Checked(S, c, t1), result |-> TRUE, limit_ok |-> TRUE,
          anomaly |-> <<>>, calls |-> CallsToLimiter]
    ELSE AnalyzeAndRespond(Checked(S, c, t1), c, m, t1, t2)

\* processRequest(client_id, metrics) on the members S of the mesh
processRequest(S, c, m, t1, t2) ==
    IF FailsOpen(S)
    THEN [state |-> S, result |-> TRUE, limit_ok |-> TRUE, anomaly |-> <<>>,
          calls |-> <<>>]
    ELSE IF ~LimitOk(PolicyAtCheck(S.policies, c, S.default_rps, t1))
    THEN [state |-> Checked(S, c, t1), result |-> FALSE, limit_ok |-> FALSE,
          anomaly |-> <<>>, calls |-> CallsToLimiter]
    ELSE AnalyzeAndRespond(Checked(S, c, t1), c, m, t1, t2)

-----------------------------------------------------------------------------
(* crypto-core: AES-256-GCM with the organization id as AAD.  A byte string   *)
(* is a sequence over 0..255; a pointer is NULL or PointerTo what it points   *)
(* at.  OpenSSL's GCM is taken as a stream cipher whose keystream is a        *)
(* function of key, IV and position, and whose tag is an injective function   *)
(* of key, IV, AAD and ciphertext; allocation and the random generator are    *)
(* taken to succeed.                                                          *)

NULL == <<>>
PointerTo(x) == <<x>>
Deref(p) == p[1]

\* WCCryptoError
WC_CRYPTO_SUCCESS == 0
WC_CRYPTO_FAILURE == 0 - 1
WC_CRYPTO_AUTH_FAILED == 0 - 2
WC_CRYPTO_INVALID_INPUT == 0 - 3
WC_CRYPTO_MEMORY_ERROR == 0 - 4
WC_CRYPTO_OVERFLOW == 0 - 5

KEY_LEN == 32
IV_LEN == 12
TAG_LEN == 16
MAX_PLAINTEXT == 1024 * 1024 * 50

\* wc_crypto_init: NULL or a context holding a copy of the key
wc_crypto_init(master_key, key_len) ==
    IF master_key = NULL \/ key_len # KEY_LEN THEN NULL
    ELSE PointerTo([key |-> SubSeq(Deref(master_key), 1, KEY_LEN)])

\* the keystream byte of position i
Keystream(key, iv, i) == (key[1] + 3 * iv[1] + 7 * i) % 256

\* EVP_EncryptUpdate and EVP_DecryptUpdate on the body
GcmEncrypt(key, iv, pt) ==
    [i \in 1..Len(pt) |-> (pt[i] + Keystream(key, iv, i)) % 256]

GcmDecrypt(key, iv, ct) ==
    [i \in 1..Len(ct) |-> (ct[i] + 256 - Keystream(key, iv, i)) % 256]

\* the tag EVP_CTRL_GCM_GET_TAG gives and EVP_DecryptFinal_ex expects
GcmTag(key, iv, aad, ct) == [key |-> key, iv |-> iv, aad |-> aad, ct |-> ct]

\* memcpy(buf + off, bytes, Len(bytes))
WriteAt(buf, off, bytes) ==
    [i \in 1..Len(buf) |->
        IF off < i /\ i <= off + Len(bytes) THEN bytes[i - off] ELSE buf[i]]

\* a buffer whose first n bytes are left as decryption wrote them
NotCleansed(buf, n) == buf

\* OPENSSL_cleanse(buf, n)
Cleansed(buf, n) == [i \in 1..Len(buf) |-> IF i <= n THEN 0 ELSE buf[i]]

\* the bytes of the AAD fed to the cipher: none if aad is null or aad_len 0
AadFed(aad, aad_len) ==
    IF aad # NULL /\ aad_len > 0 THEN SubSeq(Deref(aad), 1, aad_len) ELSE <<>>

\* the bytes of the plaintext argument the model holds
PlainBytes(a) ==
    SubSeq(Deref(a.plaintext), 1,
           IF a.plaintext_len <= Len(Deref(a.plaintext)) THEN a.plaintext_len
           ELSE Len(Deref(a.plaintext)))

\* a decryption that takes a tag of any length
TagTooShortNever(tag_len) == FALSE

\* tag_len < 16, lines 121 and 202
TagTooShort(tag_len) == tag_len < TAG_LEN

\* wc_encrypt_aes256gcm, line 121
EncryptInputsInvalid(a) ==
    \/ a.ctx = NULL
    \/ a.plaintext = NULL
    \/ a.ciphertext = NULL
    \/ a.ciphertext_len = NULL
    \/ a.tag = NULL
    \/ TagTooShort(a.tag_len)

\* wc_decrypt_aes256gcm, line 202
DecryptInputsInvalid(a) ==
    \/ a.ctx = NULL
    \/ a.ciphertext = NULL
    \/ a.plaintext = NULL
    \/ a.plaintext_len = NULL
    \/ a.tag = NULL
    \/ TagTooShort(a.tag_len)
    \/ a.ciphertext_len < IV_LEN

\* the frame's bytes from the first on, the IV taken for ciphertext
BodyWithIv(frame, frame_len) == SubSeq(frame, 1, frame_len)

\* actual_ciphertext = ciphertext + 12, of ciphertext_len - 12 bytes
Body(frame, frame_len) == SubSeq(frame, IV_LEN + 1, frame_len)

\* wc_encrypt_aes256gcm on the caller's buffers B with the arguments a, iv
\* being the bytes RAND_bytes gives; tag_len is at most 16
wc_encrypt_aes256gcm(B, a, iv) ==
    IF EncryptInputsInvalid(a) THEN [rc |-> WC_CRYPTO_INVALID_INPUT, buf |-> B]
    ELSE IF a.plaintext_len > MAX_PLAINTEXT
    THEN [rc |-> WC_CRYPTO_OVERFLOW, buf |-> B]
    ELSE CHOOSE out \in
            {[rc |-> WC_CRYPTO_SUCCESS,
              buf |-> [B EXCEPT
                         !.ciphertext = WriteAt(WriteAt(@, IV_LEN, body), 0, iv),
                         !.ciphertext_len = Len(body) + IV_LEN,
                         !.tag = GcmTag(Deref(a.ctx).key, iv,
                                        AadFed(a.aad, a.aad_len), body)]] :
                body \in {GcmEncrypt(Deref(a.ctx).key, iv, PlainBytes(a))}} : TRUE

\* wc_decrypt_aes256gcm, lines 232-261, the body ct decrypted into the
\* plaintext buffer and the tag then compared
DecryptBody(B, a, iv, ct) ==
    IF Deref(a.tag) # GcmTag(Deref(a.ctx).key, iv, AadFed(a.aad, a.aad_len), ct)
    THEN [rc |-> WC_CRYPTO_AUTH_FAILED,
          buf |-> [B EXCEPT !.plaintext =
                      Cleansed(WriteAt(@, 0, GcmDecrypt(Deref(a.ctx).key, iv, ct)),
                               Len(ct))]]
    ELSE [rc |-> WC_CRYPTO_SUCCESS,
          buf |-> [B EXCEPT !.plaintext =
                                WriteAt(@, 0, GcmDecrypt(Deref(a.ctx).key, iv, ct)),
                            !.plaintext_len = Len(ct)]]

\* wc_decrypt_aes256gcm on the caller's buffers B with the arguments a;
\* tag_len is at most 16
wc_decrypt_aes256gcm(B, a) ==
    IF DecryptInputsInvalid(a) THEN [rc |-> WC_CRYPTO_INVALID_INPUT, buf |-> B]
    ELSE DecryptBody(B, a, SubSeq(Deref(a.ciphertext), 1, IV_LEN),
                     Body(Deref(a.ciphertext), a.ciphertext_len))

\* the longest plaintext the caller's buffers hold
MaxPlainLen == 2

\* the tag buffer before any tag was written to it
NoTag == GcmTag(<<>>, <<>>, <<>>, <<>>)

\* the caller's buffers, not yet written to: the frame, its length, the tag,
\* the plaintext and its length
FreshBuffers ==
    [ciphertext |-> [i \in 1..(IV_LEN + MaxPlainLen) |-> 170],
     ciphertext_len |-> 0,
     tag |-> NoTag,
     plaintext |-> [i \in 1..MaxPlainLen |-> 170],
     plaintext_len |-> 0]

\* the buffers fresh, nothing encrypted so far
NewEnvelope == [buf |-> FreshBuffers, sealed |-> <<>>]

-----------------------------------------------------------------------------
(* State after construction *)

\* AdaptiveThresholdManager::AdaptiveThresholdManager
DefaultThresholds ==
    [k \in {"rate_limit", "anomaly_score", "failure_count", "enumeration_attempts"} |->
        CASE k = "rate_limit" -> F32FromInt(100)
          [] k = "anomaly_score" -> F32Ratio(1, 2)
          [] k = "failure_count" -> F32FromInt(5)
          [] k = "enumeration_attempts" -> F32FromInt(20)]

EmptyMap == [k \in {} |-> 0]

\* the defaults of the constructors' parameters (ThreatEngine.hpp)
DEFAULT_HISTORY_SIZE == 10000
DEFAULT_RPS == 100

NoneSeen ==
    [last_ts |-> [c \in Clients |-> -1],      \* timestamp of the client's last record
     mono    |-> [c \in Clients |-> TRUE],    \* its records' timestamps never decreased
     win_cap |-> [c \in Clients |-> 0],       \* its cap when its rate window began
     win_ok  |-> [c \in Clients |-> 0]]       \* checkLimit calls granted in that window

\* the members every constructor sets, and the bookkeeping
Constructed ==
    /\ initialized = FALSE
    /\ history = EmptyMap
    /\ policies = EmptyMap
    /\ thresholds = DefaultThresholds
    /\ hit_counts = EmptyMap
    /\ isolated_clients = <<>>
    /\ ev = [op |-> "new"]
    /\ seen = NoneSeen
    /\ ncalls = 0
    /\ envelope = NewEnvelope
    /\ threads = NoThreads

-----------------------------------------------------------------------------
(* The clock *)

\* the first reading: the clock has run for a second
StartTime == MS_PER_SECOND

\* the clock moves on to a later one of the readings `times`
Tick(times) ==
    /\ \E t \in times : t > now /\ now' = t
    /\ UNCHANGED <<envelope, threads, initialized, max_history_size, history, bulk, default_rps,
                   policies, thresholds, hit_counts, isolated_clients, ev, seen,
                   ncalls>>

-----------------------------------------------------------------------------
(* BehaviorAnalyzer as a component: record calls with timestamps the caller   *)
(* supplies, the store holding GC_CLIENTS further clients or none             *)

StoreTimes ==
    {StartTime,
     StartTime + STALE_HOURS * MS_PER_HOUR,                      \* 24 h later
     StartTime + STALE_HOURS * MS_PER_HOUR + MS_PER_HOUR \div 2, \* 24 h 30 min
     StartTime + (STALE_HOURS + 1) * MS_PER_HOUR}                \* 25 h

Half == F32Ratio(1, 2)

\* BehaviorAnalyzer::recordBehavior(m)
Record(m) ==
    /\ ncalls < MaxCalls
    /\ history' = recordBehavior(history, bulk, m, max_history_size, now)
    /\ bulk' = AutoCleanupBulk(history, bulk, now)
    /\ ev' = [op |-> "record", m |-> m, t |-> now,
              pre |-> history, pre_bulk |-> bulk,
              entry |-> ClientHist(AutoCleanup(history, bulk, now), m.client_id)]
    /\ seen' = [seen EXCEPT
                   !.last_ts[m.client_id] = m.timestamp,
                   !.mono[m.client_id] = @ /\ m.timestamp >= seen.last_ts[m.client_id]]
    /\ ncalls' = ncalls + 1
    /\ UNCHANGED <<envelope, threads, now, initialized, max_history_size, default_rps, policies,
                   thresholds, hit_counts, isolated_clients>>

StoreRecord ==
    \E c \in Clients, ts \in {StartTime, now} :
        Record(BehaviorMetrics(c, "", ts, NORMAL, Half, NoIndicators))

StoreTick == Tick(StoreTimes)

InitStore ==
    /\ Constructed
    /\ now = StartTime
    /\ max_history_size \in 0..MaxHistorySize
    /\ bulk \in {[count |-> 0, last_seen |-> StartTime],
                 [count |-> GC_CLIENTS, last_seen |-> StartTime]}
    /\ default_rps = DEFAULT_RPS

NextStore == StoreRecord \/ StoreTick

SpecStore == InitStore /\ [][NextStore]_vars

-----------------------------------------------------------------------------
(* BehaviorAnalyzer as a component: the scorer over a window of the default   *)
(* size, observed around the edge of the 60-second window                     *)

MaxObservations == 4

ScorerTimes ==
    {StartTime,
     StartTime + RAPID_WINDOW_MS,         \* 60 s later
     StartTime + RAPID_WINDOW_MS + 1}     \* and a millisecond more

HighConfidence == F32Ratio(9, 10)

\* a lookup by history[client_id], which creates the record it does not find
HistoryAfterIndexing(h, c) ==
    [k \in DOMAIN h \cup {c} |-> ClientHist(h, k)]

\* analyzeBehavior, lines 96-98: history.find(client_id) under the shared lock
HistoryAfterFind(h, c) == h

\* BehaviorAnalyzer::analyzeBehavior(c), called by `via`: the clock reads
\* `now` while the score is summed and t2, the same or a millisecond later,
\* from the pattern detection on
AnalyzeAt(c, times, via) ==
    \E t2 \in {t \in times : now <= t /\ t <= now + 1} :
        \E result \in {analyzeBehavior(history, c, now, t2, t2)} :
            /\ now' = t2
            /\ history' = HistoryAfterFind(history, c)
            /\ ev' = [op |-> "analyze", via |-> via, c |-> c, t1 |-> now,
                      t2 |-> t2, result |-> result,
                      before |-> IF ev.op = "analyze" /\ ev.c = c
                                 THEN <<[t1 |-> ev.t1, t2 |-> ev.t2,
                                         result |-> ev.result]>>
                                 ELSE <<>>,
                      pre |-> history, pre_bulk |-> bulk]
            /\ UNCHANGED <<envelope, threads, initialized, max_history_size, bulk, default_rps,
                           policies, thresholds, hit_counts, isolated_clients,
                           seen, ncalls>>

Analyze(c) == AnalyzeAt(c, ScorerTimes, "analyzeBehavior")

\* NanoSecurityMesh::getThreatLevel(c) and getAnomalyScore(c): calls of the
\* analyzer's analyzeBehavior(c); no other member of the mesh is touched
GetThreatLevel(c) == AnalyzeAt(c, ScorerTimes, "getThreatLevel")

GetAnomalyScore(c) == AnalyzeAt(c, ScorerTimes, "getAnomalyScore")

ScorerRecord ==
    /\ ncalls < MaxObservations
    /\ \E c \in Clients, conf \in {Half, HighConfidence} :
          Record(BehaviorMetrics(c, "", now, NORMAL, conf, NoIndicators))

ScorerAnalyze == \E c \in Clients : Analyze(c)

ScorerTick == Tick(ScorerTimes)

InitScorer ==
    /\ Constructed
    /\ now = StartTime
    /\ max_history_size = DEFAULT_HISTORY_SIZE
    /\ bulk = [count |-> 0, last_seen |-> StartTime]
    /\ default_rps = DEFAULT_RPS

NextScorer == ScorerRecord \/ ScorerAnalyze \/ ScorerTick

SpecScorer == InitScorer /\ [][NextScorer]_vars

-----------------------------------------------------------------------------
(* The three read paths into the analyzer: analyzeBehavior itself and the     *)
(* mesh's getThreatLevel and getAnomalyScore, over a store of few records     *)

MaxRecorded == 2

ReaderRecord ==
    /\ ncalls < MaxRecorded
    /\ \E c \in Clients, conf \in {Half, HighConfidence} :
          Record(BehaviorMetrics(c, "", now, NORMAL, conf, NoIndicators))

ReaderAnalyze == \E c \in Clients : Analyze(c)

ReaderGetLevel == \E c \in Clients : GetThreatLevel(c)

ReaderGetScore == \E c \in Clients : GetAnomalyScore(c)

ReaderTick == Tick(ScorerTimes)

NextReader ==
    ReaderRecord \/ ReaderAnalyze \/ ReaderGetLevel \/ ReaderGetScore \/ ReaderTick

SpecReader == InitScorer /\ [][NextReader]_vars

-----------------------------------------------------------------------------
(* RateLimitingPolicy as a component, constructed with a default_rps of the   *)
(* caller's choice                                                            *)

RpsChoices == {1, 10, DEFAULT_RPS}

LimiterTimes ==
    {StartTime, StartTime + MS_PER_SECOND - 1, StartTime + MS_PER_SECOND}

\* RateLimitingPolicy::checkLimit(c)
CheckLimit(c) ==
    LET p == PolicyAtCheck(policies, c, default_rps, now)
    IN  /\ ncalls < MaxCalls
        /\ policies' = checkLimit(policies, c, default_rps, now)
        /\ ev' = [op |-> "check", c |-> c, t |-> now, ok |-> LimitOk(p),
                  pre |-> policies]
        /\ seen' =
              IF WindowElapsed(WithDefaultRps(PolicyOf(policies, c), default_rps), now)
              THEN [seen EXCEPT !.win_cap[c] = p.requests_per_second,
                                !.win_ok[c] = IF LimitOk(p) THEN 1 ELSE 0]
              ELSE [seen EXCEPT !.win_ok[c] = IF LimitOk(p) THEN @ + 1 ELSE @]
        /\ ncalls' = ncalls + 1
        /\ UNCHANGED <<envelope, threads, now, initialized, max_history_size, history, bulk,
                       default_rps, thresholds, hit_counts, isolated_clients>>

\* RateLimitingPolicy::enforceDynamicLimits(anomaly)
EnforceDynamicLimits(anomaly) ==
    /\ ncalls < MaxCalls
    /\ policies' = enforceDynamicLimits(policies, anomaly, default_rps)
    /\ ev' = [op |-> "enforce", c |-> anomaly.client_id, level |-> anomaly.level,
              pre |-> policies]
    /\ ncalls' = ncalls + 1
    /\ UNCHANGED <<envelope, threads, now, initialized, max_history_size, history, bulk,
                   default_rps, thresholds, hit_counts, isolated_clients, seen>>

\* RateLimitingPolicy::resetPolicies()
ResetPolicies ==
    /\ ncalls < MaxCalls
    /\ policies' = EmptyMap
    /\ ev' = [op |-> "reset_policies", pre |-> policies]
    /\ ncalls' = ncalls + 1
    /\ UNCHANGED <<envelope, threads, now, initialized, max_history_size, history, bulk,
                   default_rps, thresholds, hit_counts, isolated_clients, seen>>

LimiterCheck == \E c \in Clients : CheckLimit(c)

LimiterEnforce ==
    \E c \in Clients, level \in SAFE..CRITICAL :
        EnforceDynamicLimits([client_id |-> c, level |-> level])

LimiterTick == Tick(LimiterTimes)

InitLimiter ==
    /\ Constructed
    /\ now = StartTime
    /\ max_history_size = DEFAULT_HISTORY_SIZE
    /\ bulk = [count |-> 0, last_seen |-> StartTime]
    /\ default_rps \in RpsChoices

NextLimiter == LimiterCheck \/ LimiterEnforce \/ ResetPolicies \/ LimiterTick

SpecLimiter == InitLimiter /\ [][NextLimiter]_vars

-----------------------------------------------------------------------------
(* RateLimitingPolicy::checkLimit("c1") called by threads at the same time,   *)
(* statement by statement, inside one window of the limiter                   *)

MaxThreads == 3
MaxBatches == 2

Threads == 1..MaxThreads

\* caps that fewer calls than threads use up, that a second round of calls
\* uses up, and the default
ThreadCaps == {1, MaxThreads - 1, MaxThreads + 1, DEFAULT_RPS}

\* readings of the clock within the second that starts at StartTime
ThreadTimes == {StartTime, StartTime + MS_PER_SECOND - 1}

OnlyLimiterChanges ==
    UNCHANGED <<envelope, now, initialized, max_history_size, history, bulk,
                default_rps, thresholds, hit_counts, isolated_clients, ev, seen>>

\* thread t is at statement pc of its call
At(t, pc) == threads.at # <<>> /\ threads.at[t].pc = pc

\* every thread calls checkLimit("c1"); none has the mutex yet.  remaining
\* and base are what the window the calls fall into still grants and the
\* count it starts from
ThreadsCall ==
    /\ ncalls < MaxBatches
    /\ threads.at = <<>> \/ \A t \in Threads : At(t, "returned")
    /\ \E p \in {PolicyAtCheck(policies, "c1", default_rps, now)} :
          threads' = [holder |-> <<>>,
                      remaining |-> MaxOf(0, p.requests_per_second - p.request_count),
                      base |-> p.request_count,
                      at |-> [t \in Threads |->
                                [pc |-> "called", reg |-> 0, result |-> <<>>]]]
    /\ ncalls' = ncalls + 1
    /\ UNCHANGED policies
    /\ OnlyLimiterChanges

\* line 270
ThreadLock(t) ==
    /\ At(t, "called")
    /\ MutexFree(threads.holder)
    /\ threads' = [threads EXCEPT !.holder = <<t>>, !.at[t].pc = "locked"]
    /\ UNCHANGED <<policies, ncalls>>
    /\ OnlyLimiterChanges

\* lines 272-281
ThreadPrepare(t) ==
    /\ At(t, "locked")
    /\ policies' = Prepared(policies, "c1", default_rps, now)
    /\ threads' = [threads EXCEPT !.at[t].pc = "prepared"]
    /\ UNCHANGED ncalls
    /\ OnlyLimiterChanges

\* lines 283-285
ThreadTest(t) ==
    /\ At(t, "prepared")
    /\ threads' = IF LimitOk(policies["c1"])
                  THEN [threads EXCEPT !.at[t].pc = "passed"]
                  ELSE [threads EXCEPT !.at[t].pc = "returning",
                                       !.at[t].result = <<FALSE>>]
    /\ UNCHANGED <<policies, ncalls>>
    /\ OnlyLimiterChanges

\* line 287, the load of request_count
ThreadLoad(t) ==
    /\ At(t, "passed")
    /\ threads' = [threads EXCEPT !.at[t].pc = "loaded",
                                  !.at[t].reg = policies["c1"].request_count]
    /\ UNCHANGED <<policies, ncalls>>
    /\ OnlyLimiterChanges

\* lines 287-288, the store of request_count and the value returned
ThreadStore(t) ==
    /\ At(t, "loaded")
    /\ policies' = WithCount(policies, "c1", threads.at[t].reg + 1)
    /\ threads' = [threads EXCEPT !.at[t].pc = "returning",
                                  !.at[t].result = <<TRUE>>]
    /\ UNCHANGED ncalls
    /\ OnlyLimiterChanges

\* the return: the lock_guard releases the mutex
ThreadUnlock(t) ==
    /\ At(t, "returning")
    /\ threads' = [threads EXCEPT !.holder = <<>>, !.at[t].pc = "returned"]
    /\ UNCHANGED <<policies, ncalls>>
    /\ OnlyLimiterChanges

ThreadsTick == Tick(ThreadTimes)

InitThreads ==
    /\ Constructed
    /\ now = StartTime
    /\ max_history_size = DEFAULT_HISTORY_SIZE
    /\ bulk = [count |-> 0, last_seen |-> StartTime]
    /\ default_rps \in ThreadCaps

NextThreads ==
    \/ ThreadsCall
    \/ \E t \in Threads :
          \/ ThreadLock(t)
          \/ ThreadPrepare(t)
          \/ ThreadTest(t)
          \/ ThreadLoad(t)
          \/ ThreadStore(t)
          \/ ThreadUnlock(t)
    \/ ThreadsTick

SpecThreads == InitThreads /\ [][NextThreads]_vars

-----------------------------------------------------------------------------
(* BehaviorAnalyzer as a component: failures of one client, of confidence 0.9 *)
(* and within ten seconds, their other fields of the caller's choice          *)

TEN_SECONDS == 10 * MS_PER_SECOND

RapidTimes == {StartTime, StartTime + TEN_SECONDS}

\* the other fields of an observation: nothing of note, a resource named, a
\* payload pattern, a high resource usage
OtherFields ==
    {[resource_id |-> "", pattern |-> NORMAL, indicators |-> NoIndicators],
     [resource_id |-> "/r1", pattern |-> NORMAL, indicators |-> NoIndicators],
     [resource_id |-> "", pattern |-> PAYLOAD_INJECTION, indicators |-> NoIndicators],
     [resource_id |-> "", pattern |-> TIMING_ATTACK,
      indicators |-> Indicators(USAGE_HIGH + 10)]}

RapidRecord ==
    \E o \in OtherFields :
        Record(BehaviorMetrics("c1", o.resource_id, now, o.pattern,
                               HighConfidence, o.indicators))

RapidAnalyze == AnalyzeAt("c1", RapidTimes, "analyzeBehavior")

RapidTick == Tick(RapidTimes)

NextRapid == RapidRecord \/ RapidAnalyze \/ RapidTick

SpecRapid == InitScorer /\ [][NextRapid]_vars

-----------------------------------------------------------------------------
(* BehaviorAnalyzer fed with timestamps of the caller's choosing: metrics are *)
(* stamped by whoever builds them, so an observation may be stored after      *)
(* observations younger than itself                                           *)

\* BehaviorMetrics::timestamp as a caller sets it: the clock's reading, or the
\* time the mesh was started
OrderStamps == {StartTime, now}

OrderRecord ==
    /\ ncalls < MaxObservations
    /\ \E ts \in OrderStamps, conf \in {Half, HighConfidence} :
          Record(BehaviorMetrics("c1", "", ts, NORMAL, conf, NoIndicators))

OrderAnalyze == AnalyzeAt("c1", ScorerTimes, "analyzeBehavior")

OrderTick == Tick(ScorerTimes)

NextOrder == OrderRecord \/ OrderAnalyze \/ OrderTick

SpecOrder == InitScorer /\ [][NextOrder]_vars

-----------------------------------------------------------------------------
(* AdaptiveThresholdManager as a component: thresholds set by the caller to   *)
(* values on either side of the floors, reinforced and reset                  *)

Adaptive == {"rate_limit", "anomaly_score"}

\* values a caller sets: below the floor (10.0f, 0.2f) and above the default
SetChoices ==
    [rate_limit |-> {F32FromInt(5), F32FromInt(200)},
     anomaly_score |-> {F32Ratio(1, 10), F32Ratio(9, 10)}]

\* the values getThreshold returns for the adaptive thresholds
Got(thr) == [k \in Adaptive |-> getThreshold(thr, k)]

\* AdaptiveThresholdManager::updateThreshold(metric, value)
UpdateThreshold(metric, value) ==
    /\ ncalls < MaxCalls
    /\ thresholds' = updateThreshold(thresholds, metric, value)
    /\ ev' = [op |-> "set", metric |-> metric, value |-> value,
              got |-> Got(thresholds)]
    /\ ncalls' = ncalls + 1
    /\ UNCHANGED <<envelope, threads, now, initialized, max_history_size, history, bulk,
                   default_rps, policies, hit_counts, isolated_clients, seen>>

\* AdaptiveThresholdManager::reinforceThresholds(anomaly)
ReinforceThresholds(anomaly) ==
    /\ ncalls < MaxCalls
    /\ thresholds' = reinforceThresholds(thresholds, anomaly)
    /\ hit_counts' = CountHit(hit_counts, anomaly.level)
    /\ ev' = [op |-> "reinforce", level |-> anomaly.level,
              got |-> Got(thresholds)]
    /\ ncalls' = ncalls + 1
    /\ UNCHANGED <<envelope, threads, now, initialized, max_history_size, history, bulk,
                   default_rps, policies, isolated_clients, seen>>

\* AdaptiveThresholdManager::resetThresholds()
ResetThresholds ==
    /\ ncalls < MaxCalls
    /\ thresholds' = resetThresholds
    /\ hit_counts' = EmptyMap
    /\ ev' = [op |-> "reset", got |-> Got(thresholds)]
    /\ ncalls' = ncalls + 1
    /\ UNCHANGED <<envelope, threads, now, initialized, max_history_size, history, bulk,
                   default_rps, policies, isolated_clients, seen>>

ManagerSet == \E metric \in Adaptive : \E value \in SetChoices[metric] :
                  UpdateThreshold(metric, value)

ManagerReinforce ==
    \E level \in SAFE..CRITICAL :
        ReinforceThresholds([client_id |-> "c1", level |-> level])

InitManager ==
    /\ Constructed
    /\ now = StartTime
    /\ max_history_size = DEFAULT_HISTORY_SIZE
    /\ bulk = [count |-> 0, last_seen |-> StartTime]
    /\ default_rps = DEFAULT_RPS

NextManager == ManagerSet \/ ManagerReinforce \/ ResetThresholds

SpecManager == InitManager /\ [][NextManager]_vars

-----------------------------------------------------------------------------
(* NanoSecurityMesh: the mesh as its constructor builds it, and as a flood of *)
(* attack requests of client "c1" leaves it                                   *)

MaxRequests == 3

\* the members of the mesh and of its components, as a record
Members ==
    [initialized |-> initialized, max_history_size |-> max_history_size,
     history |-> history, bulk |-> bulk, default_rps |-> default_rps,
     policies |-> policies, thresholds |-> thresholds, hit_counts |-> hit_counts,
     isolated_clients |-> isolated_clients]

\* NanoSecurityMesh::NanoSecurityMesh
ConstructedMesh ==
    [initialized |-> FALSE, max_history_size |-> DEFAULT_HISTORY_SIZE,
     history |-> EmptyMap, bulk |-> [count |-> 0, last_seen |-> StartTime],
     default_rps |-> DEFAULT_RPS, policies |-> EmptyMap,
     thresholds |-> DefaultThresholds, hit_counts |-> EmptyMap,
     isolated_clients |-> <<>>]

\* the i-th resource an attacker probes
PathOf(i) == "/r" \o ToString(i)

\* an observation of an attack: a payload on a resource not probed before, a
\* failure of high confidence, the resource usage high
AttackObservation(c, i, t) ==
    BehaviorMetrics(c, PathOf(i), t, PAYLOAD_INJECTION, HighConfidence,
                    Indicators(USAGE_HIGH + 10))

BenignObservation(c, t) ==
    BehaviorMetrics(c, "", t, NORMAL, Half, NoIndicators)

\* initialize() and then k attack requests of "c1", one every `pace` ms from
\* StartTime on
RECURSIVE Flood(_, _)
Flood(k, pace) ==
    IF k = 0 THEN [ConstructedMesh EXCEPT !.initialized = TRUE]
    ELSE CHOOSE S \in
            {processRequest(before, "c1", AttackObservation("c1", k, t), t, t).state :
                before \in {Flood(k - 1, pace)},
                t \in {StartTime + (k - 1) * pace}} : TRUE

\* the mesh new; after a burst of 10 requests within a millisecond; after 12
\* requests a second apart
MeshStarts ==
    {[state |-> ConstructedMesh, now |-> StartTime],
     [state |-> Flood(10, 0), now |-> StartTime],
     [state |-> Flood(12, MS_PER_SECOND), now |-> StartTime + 11 * MS_PER_SECOND]}

MeshTimes ==
    {StartTime, StartTime + 11 * MS_PER_SECOND, StartTime + 12 * MS_PER_SECOND}

\* NanoSecurityMesh::initialize()
Initialize ==
    /\ initialized' = TRUE
    /\ UNCHANGED <<envelope, threads, now, max_history_size, history, bulk, default_rps, policies,
                   thresholds, hit_counts, isolated_clients, ev, seen, ncalls>>

\* NanoSecurityMesh::processRequest(c, m), the clock reading `now` up to the
\* summing of the score and t2, the same or a later one of `times`, from then on
ProcessRequestAt(c, m, times) ==
    /\ ncalls < MaxRequests
    /\ \E t2 \in {t \in times : now <= t /\ t <= now + 1} :
        \E out \in {processRequest(Members, c, m, now, t2)} :
            /\ now' = t2
            /\ initialized' = out.state.initialized
            /\ max_history_size' = out.state.max_history_size
            /\ history' = out.state.history
            /\ bulk' = out.state.bulk
            /\ default_rps' = out.state.default_rps
            /\ policies' = out.state.policies
            /\ thresholds' = out.state.thresholds
            /\ hit_counts' = out.state.hit_counts
            /\ isolated_clients' = out.state.isolated_clients
            /\ ev' = [op |-> "process", c |-> c, m |-> m, t1 |-> now, t2 |-> t2,
                      ready |-> initialized, result |-> out.result,
                      limit_ok |-> out.limit_ok, anomaly |-> out.anomaly,
                      calls |-> out.calls, pre_hits |-> hit_counts]
            /\ ncalls' = ncalls + 1
            /\ UNCHANGED <<envelope, threads, seen>>

ProcessRequest(c, m) == ProcessRequestAt(c, m, MeshTimes)

\* the next attack observation of client c
NextAttack(c) ==
    AttackObservation(c, Len(ClientHist(history, c).behaviors) + 1, now)

\* the requests made: of either client with an observation of its own, benign
\* or of an attack, and of "c1" with an attack observation of "c2"
MeshRequest ==
    \/ \E c \in Clients : ProcessRequest(c, BenignObservation(c, now))
    \/ \E c \in Clients : ProcessRequest(c, NextAttack(c))
    \/ ProcessRequest("c1", NextAttack("c2"))

MeshTick == Tick(MeshTimes)

Init ==
    /\ \E s \in MeshStarts :
          /\ now = s.now
          /\ initialized = s.state.initialized
          /\ max_history_size = s.state.max_history_size
          /\ history = s.state.history
          /\ bulk = s.state.bulk
          /\ default_rps = s.state.default_rps
          /\ policies = s.state.policies
          /\ thresholds = s.state.thresholds
          /\ hit_counts = s.state.hit_counts
          /\ isolated_clients = s.state.isolated_clients
    /\ ev = [op |-> "new"]
    /\ seen = NoneSeen
    /\ ncalls = 0
    /\ envelope = NewEnvelope
    /\ threads = NoThreads

Next == Initialize \/ MeshRequest \/ MeshTick

Spec == Init /\ [][Next]_vars

-----------------------------------------------------------------------------
(* NanoSecurityMesh with enforceDefense: the mesh's requests, and anomalies  *)
(* a caller hands to the response engine                                      *)

\* an AnomalyScore a caller of enforceDefense makes up: of client c, at level
LevelScores ==
    [level \in SAFE..CRITICAL |->
        CASE level = SAFE -> F32Zero
          [] level = LOW -> F32Ratio(3, 10)
          [] level = MEDIUM -> F32Ratio(3, 5)
          [] level = HIGH -> F32Ratio(4, 5)
          [] OTHER -> F32One]

CallerAnomaly(c, level) ==
    [client_id |-> c, score |-> LevelScores[level], level |-> level,
     detected_patterns |-> <<>>, timestamp |-> now]

\* NanoSecurityMesh::enforceDefense(anomaly): respondToThreat(anomaly),
\* whether initialize() was called or not
EnforceDefense(c, level) ==
    /\ ncalls < MaxRequests
    /\ \E anomaly \in {CallerAnomaly(c, level)} :
        /\ isolated_clients' = respondToThreat(isolated_clients, anomaly, now)
        /\ ev' = [op |-> "defend", c |-> c, anomaly |-> <<anomaly>>,
                  calls |-> <<"respondToThreat">>]
    /\ ncalls' = ncalls + 1
    /\ UNCHANGED <<envelope, threads, now, initialized, max_history_size, history, bulk,
                   default_rps, policies, thresholds, hit_counts, seen>>

MeshDefense == \E level \in {HIGH, CRITICAL} : EnforceDefense("c2", level)

NextDefense == Initialize \/ MeshRequest \/ MeshTick \/ MeshDefense

SpecDefense == Init /\ [][NextDefense]_vars

-----------------------------------------------------------------------------
(* NanoSecurityMesh over a crowded store: "c1" has sent one payload, the     *)
(* analyzer holds GC_CLIENTS further clients or none, and the clock runs on   *)
(* past the 24 hours after which a record is stale                            *)

CrowdedTimes ==
    {StartTime,
     StartTime + STALE_HOURS * MS_PER_HOUR + MS_PER_HOUR \div 2, \* 24 h 30 min
     StartTime + (STALE_HOURS + 1) * MS_PER_HOUR}                \* 25 h

\* initialize(), one attack request of "c1", and `others` further clients
\* seen at StartTime
Crowded(others) == [Flood(1, 0) EXCEPT !.bulk.count = others]

CrowdedRequest ==
    \/ \E c \in Clients : ProcessRequestAt(c, BenignObservation(c, now), CrowdedTimes)
    \/ \E c \in Clients : ProcessRequestAt(c, NextAttack(c), CrowdedTimes)
    \/ ProcessRequestAt("c1", BenignObservation("c2", now), CrowdedTimes)

CrowdedTick == Tick(CrowdedTimes)

InitCrowded ==
    /\ \E s \in {Crowded(0), Crowded(GC_CLIENTS)} :
          /\ initialized = s.initialized
          /\ max_history_size = s.max_history_size
          /\ history = s.history
          /\ bulk = s.bulk
          /\ default_rps = s.default_rps
          /\ policies = s.policies
          /\ thresholds = s.thresholds
          /\ hit_counts = s.hit_counts
          /\ isolated_clients = s.isolated_clients
    /\ now = StartTime
    /\ ev = [op |-> "new"]
    /\ seen = NoneSeen
    /\ ncalls = 0
    /\ envelope = NewEnvelope
    /\ threads = NoThreads

NextCrowded == CrowdedRequest \/ CrowdedTick

SpecCrowded == InitCrowded /\ [][NextCrowded]_vars

-----------------------------------------------------------------------------
(* NanoSecurityMesh after a scan: "c1" has probed ScanLength resources a      *)
(* second apart with failures of high confidence and high resource usage but  *)
(* no payload, or has sent the 12 attack requests of Flood                    *)

\* as many resources as take the enumeration score to 1
ScanLength == 20

\* an observation of a scan: as that of an attack, without the payload
ScanObservation(c, i, t) ==
    BehaviorMetrics(c, PathOf(i), t, ENUMERATION, HighConfidence,
                    Indicators(USAGE_HIGH + 10))

\* initialize() and then k scan requests of "c1", one every second from
\* StartTime on
RECURSIVE Scan(_)
Scan(k) ==
    IF k = 0 THEN [ConstructedMesh EXCEPT !.initialized = TRUE]
    ELSE CHOOSE S \in
            {processRequest(before, "c1", ScanObservation("c1", k, t), t, t).state :
                before \in {Scan(k - 1)},
                t \in {StartTime + (k - 1) * MS_PER_SECOND}} : TRUE

ScanTimes ==
    {StartTime + (ScanLength - 1) * MS_PER_SECOND,
     StartTime + ScanLength * MS_PER_SECOND,
     StartTime + (ScanLength + 1) * MS_PER_SECOND}

ScanRequest ==
    \/ \E c \in Clients : ProcessRequestAt(c, BenignObservation(c, now), ScanTimes)
    \/ \E c \in Clients : ProcessRequestAt(c, NextAttack(c), ScanTimes)
    \/ ProcessRequestAt("c1", ScanObservation("c1", 0, now), ScanTimes)

ScanTick == Tick(ScanTimes)

InitScan ==
    /\ \E s \in {Scan(ScanLength), Flood(12, MS_PER_SECOND)} :
          /\ initialized = s.initialized
          /\ max_history_size = s.max_history_size
          /\ history = s.history
          /\ bulk = s.bulk
          /\ default_rps = s.default_rps
          /\ policies = s.policies
          /\ thresholds = s.thresholds
          /\ hit_counts = s.hit_counts
          /\ isolated_clients = s.isolated_clients
    /\ now = StartTime + (ScanLength - 1) * MS_PER_SECOND
    /\ ev = [op |-> "new"]
    /\ seen = NoneSeen
    /\ ncalls = 0
    /\ envelope = NewEnvelope
    /\ threads = NoThreads

NextScan == ScanRequest \/ ScanTick

SpecScan == InitScan /\ [][NextScan]_vars

-----------------------------------------------------------------------------
(* crypto-core as a component: a context made, plaintexts encrypted into the  *)
(* caller's buffers, and the frame and tag decrypted as they are or tampered  *)
(* with, under the same or another key and organization id                    *)

MaxEnvelopeCalls == 2

KeyOf(b) == [i \in 1..KEY_LEN |-> b]

Keys == {KeyOf(1), KeyOf(2)}

\* the contexts the caller holds: what wc_crypto_init made of the keys, and
\* the NULL it returns for a key of 16 bytes
Contexts ==
    {wc_crypto_init(PointerTo(key), key_len) :
        key \in Keys, key_len \in {KEY_LEN, KEY_LEN \div 2}}

\* "hello", and what the caller's buffers hold of it
Hello == <<104, 101, 108, 108, 111>>

Plaintexts == {SubSeq(Hello, 1, n) : n \in 0..MaxPlainLen}

\* no organization id, "A", "B"
Aads == {NULL, PointerTo(<<65>>), PointerTo(<<66>>)}

AadLen(aad) == IF aad = NULL THEN 0 ELSE Len(Deref(aad))

\* what RAND_bytes(iv, 12) may give
Ivs == {[i \in 1..IV_LEN |-> b] : b \in {1, 2}}

\* what is wrong with a call's arguments
EncryptDefects ==
    {"null plaintext", "null ciphertext", "null ciphertext_len", "null tag",
     "short tag", "long plaintext"}

DecryptDefects ==
    {"null ciphertext", "null plaintext", "null plaintext_len", "null tag",
     "short tag", "short frame"}

\* the arguments of an encrypt call
EncryptArgs(ctx, p, aad, defect) ==
    [ctx |-> ctx,
     plaintext |-> IF defect = "null plaintext" THEN NULL ELSE PointerTo(p),
     plaintext_len |-> IF defect = "long plaintext" THEN MAX_PLAINTEXT + 1
                       ELSE Len(p),
     aad |-> aad,
     aad_len |-> AadLen(aad),
     ciphertext |-> IF defect = "null ciphertext" THEN NULL
                    ELSE PointerTo("ciphertext"),
     ciphertext_len |-> IF defect = "null ciphertext_len" THEN NULL
                        ELSE PointerTo("ciphertext_len"),
     tag |-> IF defect = "null tag" THEN NULL ELSE PointerTo("tag"),
     tag_len |-> IF defect = "short tag" THEN TAG_LEN - 1 ELSE TAG_LEN]

\* the frame the caller holds, and what a tamperer makes of a frame
HeldFrame == SubSeq(envelope.buf.ciphertext, 1, envelope.buf.ciphertext_len)

Tampered(frame, how) ==
    CASE how = "iv" /\ Len(frame) >= 1 ->
            [frame EXCEPT ![1] = (@ + 1) % 256]
      [] how = "body" /\ Len(frame) > IV_LEN ->
            [frame EXCEPT ![Len(frame)] = (@ + 1) % 256]
      [] how = "cut" /\ Len(frame) >= 1 ->
            SubSeq(frame, 1, Len(frame) - 1)
      [] OTHER -> frame

\* a tag that no encryption gave
ForgedTag(tag) == [tag EXCEPT !.ct = Append(@, 0)]

\* the arguments of a decrypt call
DecryptArgs(ctx, frame, aad, tag, defect) ==
    [ctx |-> ctx,
     ciphertext |-> IF defect = "null ciphertext" THEN NULL ELSE PointerTo(frame),
     ciphertext_len |-> Len(frame),
     aad |-> aad,
     aad_len |-> AadLen(aad),
     plaintext |-> IF defect = "null plaintext" THEN NULL
                   ELSE PointerTo("plaintext"),
     plaintext_len |-> IF defect = "null plaintext_len" THEN NULL
                       ELSE PointerTo("plaintext_len"),
     tag |-> IF defect = "null tag" THEN NULL ELSE PointerTo(tag),
     tag_len |-> IF defect = "short tag" THEN TAG_LEN - 1 ELSE TAG_LEN]

\* wc_encrypt_aes256gcm(a...), a being the arguments EncryptArgs makes of
\* ctx, p, aad and defect, RAND_bytes giving iv
Encrypt(ctx, p, aad, defect, iv) ==
    /\ ncalls < MaxEnvelopeCalls
    /\ \E a \in {EncryptArgs(ctx, p, aad, defect)} :
       \E out \in {wc_encrypt_aes256gcm(envelope.buf, a, iv)} :
        /\ envelope' =
              [envelope EXCEPT
                 !.buf = out.buf,
                 !.sealed = IF out.rc = WC_CRYPTO_SUCCESS
                            THEN <<[key |-> Deref(a.ctx).key,
                                    plaintext |-> PlainBytes(a),
                                    aad |-> AadFed(a.aad, a.aad_len),
                                    iv |-> iv,
                                    frame |-> SubSeq(out.buf.ciphertext, 1,
                                                     out.buf.ciphertext_len),
                                    tag |-> out.buf.tag]>>
                            ELSE @]
        /\ ev' = [op |-> "encrypt", a |-> a, rc |-> out.rc, pre |-> envelope.buf]
        /\ ncalls' = ncalls + 1
        /\ UNCHANGED <<now, initialized, max_history_size, history, bulk,
                       default_rps, policies, thresholds, hit_counts,
                       isolated_clients, seen, threads>>

\* wc_decrypt_aes256gcm(a...)
Decrypt(a) ==
    /\ ncalls < MaxEnvelopeCalls
    /\ \E out \in {wc_decrypt_aes256gcm(envelope.buf, a)} :
        /\ envelope' = [envelope EXCEPT !.buf = out.buf]
        /\ ev' = [op |-> "decrypt", a |-> a, rc |-> out.rc, pre |-> envelope.buf]
        /\ ncalls' = ncalls + 1
        /\ UNCHANGED <<now, initialized, max_history_size, history, bulk,
                       default_rps, policies, thresholds, hit_counts,
                       isolated_clients, seen, threads>>

EnvelopeEncrypt ==
    \E ctx \in Contexts, p \in Plaintexts, aad \in Aads, iv \in Ivs :
        Encrypt(ctx, p, aad, "none", iv)

EnvelopeEncryptRejected ==
    \E ctx \in Contexts \ {NULL}, defect \in EncryptDefects :
        Encrypt(ctx, SubSeq(Hello, 1, 1), NULL, defect, [i \in 1..IV_LEN |-> 1])

EnvelopeDecrypt ==
    \E ctx \in Contexts, how \in {"none", "iv", "body", "cut"}, aad \in Aads,
       tag \in {envelope.buf.tag, ForgedTag(envelope.buf.tag)} :
        Decrypt(DecryptArgs(ctx, Tampered(HeldFrame, how), aad, tag, "none"))

EnvelopeDecryptRejected ==
    \E ctx \in Contexts \ {NULL}, defect \in DecryptDefects :
        Decrypt(DecryptArgs(ctx,
                            IF defect = "short frame"
                            THEN SubSeq(envelope.buf.ciphertext, 1, IV_LEN - 1)
                            ELSE HeldFrame,
                            NULL, envelope.buf.tag, defect))

NextEnvelope ==
    \/ EnvelopeEncrypt
    \/ EnvelopeEncryptRejected
    \/ EnvelopeDecrypt
    \/ EnvelopeDecryptRejected

SpecEnvelope == InitScorer /\ [][NextEnvelope]_vars

-----------------------------------------------------------------------------
(* Claims about the behavior store (SpecStore) *)

IsSuffix(q, full) ==
    Len(q) <= Len(full) /\ q = SubSeq(full, Len(full) - Len(q) + 1, Len(full))

Min(a, b) == IF a <= b THEN a ELSE b

Recorded == ev.op = "record"

\* the recorded client's behaviors before the call and after it
OldBehaviors ==
    IF ev.m.client_id \in DOMAIN ev.pre THEN ev.pre[ev.m.client_id].behaviors
    ELSE <<>>
NewBehaviors == history[ev.m.client_id].behaviors

\* the call found more than 10 000 client records
CleanupRan == HistorySize(ev.pre, ev.pre_bulk) > GC_CLIENTS

\* the call erased the front of the client's behaviors
Evicted == Len(ev.entry.behaviors) + 1 > max_history_size

\* C5: every client's behaviors hold at most max_history_size elements, and a
\* record leaves the newest of the old elements followed by the new one, in
\* insertion order: a suffix of (old behaviors, then m), of the window's
\* length (or of a fresh window's, when the cleanup dropped the client first).
C5_WindowBounded ==
    /\ \A c \in DOMAIN history : Len(history[c].behaviors) <= max_history_size
    /\ Recorded =>
          /\ IsSuffix(NewBehaviors, Append(OldBehaviors, ev.m))
          /\ \/ Len(NewBehaviors) = Min(max_history_size, Len(OldBehaviors) + 1)
             \/ CleanupRan /\ Len(NewBehaviors) = Min(max_history_size, 1)

\* a full window of two or more took a new element and lost its oldest
C5_Witness ==
    /\ Recorded
    /\ max_history_size >= 2
    /\ Len(OldBehaviors) = max_history_size
    /\ NewBehaviors = Tail(Append(OldBehaviors, ev.m))
    /\ NewBehaviors # OldBehaviors

\* C6 as claimed: after an eviction first_seen is the timestamp of the new
\* front element.
C6_FirstSeenIsNewFront ==
    (Recorded /\ Evicted /\ Len(NewBehaviors) > 0) =>
        history[ev.m.client_id].first_seen = NewBehaviors[1].timestamp

\* C6 amended: an eviction leaves first_seen as the record found it (as the
\* new observation's timestamp when it found the behaviors empty); it is not
\* moved to the new front.
C6_FirstSeenKept ==
    (Recorded /\ Evicted) =>
        history[ev.m.client_id].first_seen =
            IF Len(ev.entry.behaviors) = 0 THEN ev.m.timestamp
            ELSE ev.entry.first_seen

\* an eviction after which first_seen is older than the new front
C6_Witness ==
    /\ Recorded /\ Evicted /\ Len(NewBehaviors) > 0
    /\ Len(ev.entry.behaviors) > 0
    /\ history[ev.m.client_id].first_seen < NewBehaviors[1].timestamp

SeenBounds(c) ==
    \A i \in 1..Len(history[c].behaviors) :
        /\ history[c].first_seen <= history[c].behaviors[i].timestamp
        /\ history[c].behaviors[i].timestamp <= history[c].last_seen

\* C7 as claimed: first_seen <= b.timestamp <= last_seen for every stored
\* behavior, whatever timestamps the callers supply.
C7_SeenBoundsAnyTimestamps == \A c \in DOMAIN history : SeenBounds(c)

\* C7 amended: the bounds hold for every client whose record calls carried
\* timestamps that never decreased from one call to the next.
C7_SeenBoundsMonotone ==
    \A c \in DOMAIN history : seen.mono[c] => SeenBounds(c)

\* a client with non-decreasing timestamps, two behaviors and distinct bounds
C7_Witness ==
    \E c \in DOMAIN history :
        /\ seen.mono[c]
        /\ Len(history[c].behaviors) >= 2
        /\ history[c].first_seen < history[c].last_seen

\* C8 as claimed: a record that finds more than 10 000 client records removes
\* every record idle for more than 24 hours before it appends, and keeps
\* every record idle for 24 hours or less.
C8_StaleRemovedFreshKept ==
    (Recorded /\ CleanupRan) =>
        /\ \A c \in DOMAIN ev.pre :
              IF ev.t - ev.pre[c].last_seen > STALE_HOURS * MS_PER_HOUR
              THEN IF c = ev.m.client_id
                   THEN IsSuffix(history[c].behaviors, <<ev.m>>)
                   ELSE c \notin DOMAIN history
              ELSE /\ c \in DOMAIN history
                   /\ c # ev.m.client_id => history[c] = ev.pre[c]
        /\ ev.pre_bulk.count > 0 =>
              IF ev.t - ev.pre_bulk.last_seen > STALE_HOURS * MS_PER_HOUR
              THEN bulk.count = 0
              ELSE bulk = ev.pre_bulk

-----------------------------------------------------------------------------
(* Claims about the scorer (SpecScorer) *)

Analyzed == ev.op = "analyze"

\* this analysis and the call before it, an analysis of the same client
Reanalyzed == Analyzed /\ Len(ev.before) > 0

\* the clock readings t and u put the same behaviors of ev.c within 60 s
SameWindow(t, u) ==
    \A i \in 1..Len(ClientHist(history, ev.c).behaviors) :
        LET ts == ClientHist(history, ev.c).behaviors[i].timestamp
        IN  (t - ts > RAPID_WINDOW_MS) <=> (u - ts > RAPID_WINDOW_MS)

\* C9 as claimed: two analyses of a client with no record in between return
\* the same score, the same level and the same detected_patterns.
C9_AnalyzeIdempotent ==
    Reanalyzed =>
        /\ ev.result.score = ev.before[1].result.score
        /\ ev.result.level = ev.before[1].result.level
        /\ ev.result.detected_patterns = ev.before[1].result.detected_patterns

\* C9 amended: two analyses of a client with no record in between return the
\* same score and level when the clock readings of their score sums put the
\* same behaviors of the client within 60 s, and the same detected_patterns
\* when the readings of their pattern detections do.
C9_AnalyzeIdempotentInWindow ==
    Reanalyzed =>
        /\ SameWindow(ev.t1, ev.before[1].t1) =>
              /\ ev.result.score = ev.before[1].result.score
              /\ ev.result.level = ev.before[1].result.level
        /\ SameWindow(ev.t2, ev.before[1].t2) =>
              ev.result.detected_patterns = ev.before[1].result.detected_patterns

\* a second analysis at a later reading of the clock, the client's failures
\* within 60 s of both and counted into a positive score
C9_Witness ==
    /\ Reanalyzed
    /\ ev.t1 > ev.before[1].t1
    /\ SameWindow(ev.t1, ev.before[1].t1)
    /\ SameWindow(ev.t2, ev.before[1].t2)
    /\ F32Gt(ev.result.score, F32Zero)
    /\ ev.result.score = ev.before[1].result.score

\* C10 as claimed: in every result of analyze, a pattern is in
\* detected_patterns if and only if its sub-score that was weighted into the
\* result's score exceeds 0.70.
C10_PatternsFromScoredSubScores ==
    (Analyzed /\ Len(ClientHist(history, ev.c).behaviors) > 0) =>
        \A p \in RAPID_FAILURES..RESOURCE_ABUSE :
            (\E i \in 1..Len(ev.result.detected_patterns) :
                    ev.result.detected_patterns[i] = p)
                <=> F32Gt(SubScores(ClientHist(history, ev.c), ev.t1)[p], DETECT)

-----------------------------------------------------------------------------
(* Claims about the rate limiter (SpecLimiter) *)

\* C3 as claimed: in every 1-second window of every client, the checkLimit
\* calls that returned true are at most the client's cap as it was when the
\* window began.
C3_GrantsWithinCapAtWindowStart ==
    \A c \in Clients : seen.win_ok[c] <= seen.win_cap[c]

\* C4 as claimed: enforceDynamicLimits never relaxes a cap; the cap of the
\* anomaly's client after the call is at most its cap before the call (a
\* client that had no cap of its own being under default_rps).
C4_EnforceNeverRelaxes ==
    ev.op = "enforce" =>
        policies[ev.c].requests_per_second <=
            WithDefaultRps(PolicyOf(ev.pre, ev.c), default_rps).requests_per_second

-----------------------------------------------------------------------------
(* Claims about the mesh (Spec) *)

\* a processRequest call on an initialized mesh
Processed == ev.op = "process" /\ ev.ready

PayloadDetected(anomaly) ==
    \E i \in 1..Len(anomaly.detected_patterns) :
        anomaly.detected_patterns[i] = PAYLOAD_INJECTION

\* the anomaly of the request's client_id, the observation recorded
AnomalyAfterRecord == analyzeBehavior(history, ev.c, ev.t1, ev.t2, ev.t2)

\* the anomaly is at `level`, a payload injection detected or none as
\* `payload` says
Scored(level, payload) ==
    \E anomaly \in {AnomalyAfterRecord} :
        /\ anomaly.level = level
        /\ PayloadDetected(anomaly) = payload

\* C1: on an initialized mesh processRequest(c, m) returns false if and only
\* if checkLimit(c) returned false, or the anomaly computed for c after
\* recording m has level CRITICAL, or PAYLOAD_INJECTION is among that
\* anomaly's detected_patterns; otherwise it returns true.
C1_DenyIffLimitCriticalOrPayload ==
    Processed =>
        (ev.result = FALSE <=>
            \/ ~ev.limit_ok
            \/ /\ ev.limit_ok
               /\ \E anomaly \in {AnomalyAfterRecord} :
                      \/ anomaly.level = CRITICAL
                      \/ PayloadDetected(anomaly))

\* a request within its rate limit that found its client at level LOW with a
\* payload injection detected, and was denied
C1_Witness ==
    /\ Processed
    /\ ev.limit_ok
    /\ Scored(LOW, TRUE)
    /\ ev.result = FALSE

\* C2 as claimed: on an initialized mesh every processRequest(c, m) whose
\* observation m has pattern PAYLOAD_INJECTION returns false.
C2_PayloadAlwaysDenied ==
    (Processed /\ ev.m.pattern = PAYLOAD_INJECTION) => ev.result = FALSE

-----------------------------------------------------------------------------
(* Claims about the scorer, continued (SpecScorer) *)

\* the analysed client has no recorded history
NoHistory == Len(ClientHist(history, ev.c).behaviors) = 0

-----------------------------------------------------------------------------
(* Claims about the read paths, checked under SpecReader *)

\* C12: analyzeBehavior(c), getThreatLevel(c) and getAnomalyScore(c) leave the
\* behavior store as it was: no record is added, removed or changed and no
\* client record is created, also for a client the store has never seen
C12_ReadsLeaveStore ==
    Analyzed => /\ history = ev.pre
                /\ bulk = ev.pre_bulk
                /\ DOMAIN history = DOMAIN ev.pre

\* a getter has answered for a client the store has never seen, while the
\* store holds the records of another client
C12_Witness ==
    /\ Analyzed
    /\ ev.via \in {"getThreatLevel", "getAnomalyScore"}
    /\ ev.c \notin DOMAIN ev.pre
    /\ ev.pre # EmptyMap
    /\ ev.result.level = SAFE

-----------------------------------------------------------------------------
(* Claims about the threshold manager, checked under SpecManager *)

Reinforced == ev.op = "reinforce"

Floors == [rate_limit |-> F32FromInt(10), anomaly_score |-> F32Ratio(1, 5)]

\* C13: from every threshold state that set, reinforce and reset calls reach,
\* a reinforce call leaves neither "rate_limit" nor "anomaly_score" greater
\* than getThreshold returned for it before the call, and both are at or above
\* their floors (10.0 and 0.2) after it
C13_ReinforceNeverRaises ==
    Reinforced =>
        \A k \in Adaptive :
            /\ ~F32Gt(getThreshold(thresholds, k), ev.got[k])
            /\ ~F32Lt(getThreshold(thresholds, k), Floors[k])

-----------------------------------------------------------------------------
(* Claims about the mesh's control flow, checked under Spec *)

\* processRequest was the last call, on a mesh initialized or not
Requested == ev.op = "process"

\* C14: while initialize() has not been called, processRequest returns true
\* for every client and every observation, one with pattern =
\* PAYLOAD_INJECTION included
C14_FailsOpenBeforeInitialize ==
    (Requested /\ ~ev.ready) => ev.result = TRUE

\* a payload observation has been allowed by a mesh not yet initialized
C14_Witness ==
    /\ Requested
    /\ ~ev.ready
    /\ ev.m.pattern = PAYLOAD_INJECTION
    /\ ev.result = TRUE
    /\ history = EmptyMap

\* the level the request's analysis gave, SAFE where none was made
AnalyzedLevel == IF ev.anomaly = <<>> THEN SAFE ELSE ev.anomaly[1].level

RespondedTo == ev.anomaly # <<>> /\ AnalyzedLevel >= MEDIUM

\* C20 as stated: every request on an initialized mesh runs checkLimit,
\* recordBehavior and analyzeBehavior in this order, then reinforce, enforce
\* and respond, once each in this order, exactly if the level is >= MEDIUM
C20_AllStepsEveryRequest ==
    Processed =>
        /\ ev.anomaly # <<>>
        /\ ev.calls = CallsToLimiter \o CallsToAnalyzer \o
                      (IF AnalyzedLevel >= MEDIUM THEN CallsOfResponse ELSE <<>>)

\* C20 with the denial by the rate limit: checkLimit runs first; if it
\* denies, nothing else is called and the verdict is deny; if it grants,
\* recordBehavior and analyzeBehavior follow in this order, then reinforce,
\* enforce and respond, once each in this order, exactly if the level is
\* >= MEDIUM, and the state returned with the verdict holds their effect
C20_StepsInOrder ==
    Processed =>
        /\ ev.limit_ok = (ev.anomaly # <<>>)
        /\ ~ev.limit_ok => (ev.calls = CallsToLimiter /\ ev.result = FALSE)
        /\ ev.limit_ok =>
              ev.calls = CallsToLimiter \o CallsToAnalyzer \o
                         (IF AnalyzedLevel >= MEDIUM THEN CallsOfResponse ELSE <<>>)
        /\ hit_counts = IF RespondedTo THEN CountHit(ev.pre_hits, AnalyzedLevel)
                        ELSE ev.pre_hits

\* a request whose analysis gave LOW has been answered without a response,
\* after requests that were denied by the limit or responded to
C20_Witness ==
    /\ Processed
    /\ ev.limit_ok
    /\ AnalyzedLevel = LOW
    /\ ev.calls = CallsToLimiter \o CallsToAnalyzer
    /\ hit_counts # EmptyMap

-----------------------------------------------------------------------------
(* Claims about the rate limiter's window, checked under SpecLimiter *)

CheckedLimit == ev.op = "check"

\* the client's policy as the call found it, the default cap filled in
PolicyBefore == WithDefaultRps(PolicyOf(ev.pre, ev.c), default_rps)

\* C15: for a client whose cap is at least 1, a checkLimit call made one
\* second or more after the client's window began starts a new window at the
\* time of the call, counts the call as the first of it and returns true,
\* also when the window before was exhausted
C15_NewWindowGrants ==
    (/\ CheckedLimit
     /\ PolicyBefore.requests_per_second >= 1
     /\ ev.t - PolicyBefore.last_reset >= MS_PER_SECOND)
        => /\ ev.ok = TRUE
           /\ policies[ev.c].last_reset = ev.t
           /\ policies[ev.c].request_count = 1

\* a call exactly one second after the start of a window that was exhausted
\* has been granted
C15_Witness ==
    /\ CheckedLimit
    /\ ev.c \in DOMAIN ev.pre
    /\ PolicyBefore.requests_per_second >= 1
    /\ PolicyBefore.request_count >= PolicyBefore.requests_per_second
    /\ ev.t - PolicyBefore.last_reset = MS_PER_SECOND
    /\ ev.ok = TRUE

-----------------------------------------------------------------------------
(* Claims about rapid failures, checked under SpecRapid *)

AnalyzedBehaviors == ClientHist(history, ev.c).behaviors

\* the analysis found five observations or more of the client, each of
\* confidence 0.9 and stamped within the ten seconds before it
FiveFailures ==
    /\ Analyzed
    /\ Len(AnalyzedBehaviors) >= 5
    /\ \A i \in 1..Len(AnalyzedBehaviors) :
          /\ AnalyzedBehaviors[i].confidence = HighConfidence
          /\ ev.t1 - AnalyzedBehaviors[i].timestamp <= TEN_SECONDS
          /\ AnalyzedBehaviors[i].timestamp <= ev.t1

RapidSubScore == calculateRapidFailureScore(ClientHist(history, ev.c), ev.t1)

\* an observation carries something the other sub-scores count: a resource
\* named, a payload pattern or a resource usage above 0.8
OtherSignal ==
    \E i \in 1..Len(AnalyzedBehaviors) :
        \/ AnalyzedBehaviors[i].resource_id # ""
        \/ AnalyzedBehaviors[i].pattern = PAYLOAD_INJECTION
        \/ HighResource(AnalyzedBehaviors[i])

\* C16 as claimed: after 5 observations of confidence 0.9 for one client
\* within the last 10 seconds an analysis gives the rapid sub-score 1.0, a
\* score >= 0.25 and a level >= LOW, whatever the observations' other fields
C16_FiveFailuresAtLeastLow ==
    FiveFailures =>
        /\ RapidSubScore = F32One
        /\ ~F32Lt(ev.result.score, F32Ratio(1, 4))
        /\ ev.result.level >= LOW

\* C16 with the level the bands give: the rapid sub-score is 1.0 and the
\* score >= 0.25; the level is >= LOW exactly if the score is above 0.25,
\* which it is exactly if an observation carries a signal of another kind
C16_FiveFailuresScoreQuarter ==
    FiveFailures =>
        /\ RapidSubScore = F32One
        /\ ~F32Lt(ev.result.score, F32Ratio(1, 4))
        /\ (ev.result.level >= LOW) = F32Gt(ev.result.score, F32Ratio(1, 4))
        /\ (ev.result.level >= LOW) = OtherSignal

\* five failures with nothing else of note have been analyzed: the score is
\* 0.25 and the level SAFE, RAPID_FAILURES detected
C16_Witness ==
    /\ FiveFailures
    /\ Len(AnalyzedBehaviors) = 5
    /\ ~OtherSignal
    /\ ev.result.score = F32Ratio(1, 4)
    /\ ev.result.level = SAFE
    /\ ev.result.detected_patterns = <<RAPID_FAILURES>>

-----------------------------------------------------------------------------
(* Claims about the AEAD envelope, checked under SpecEnvelope *)

Encrypted == ev.op = "encrypt"
Decrypted == ev.op = "decrypt"

\* the last successful encryption: its key, plaintext, AAD, frame and tag
Sealed == envelope.sealed[1]

\* the call had a null required argument or a tag_len below 16
BadArgument ==
    \/ ev.a.ctx = NULL
    \/ ev.a.ciphertext = NULL
    \/ ev.a.plaintext = NULL
    \/ ev.a.tag = NULL
    \/ Encrypted /\ ev.a.ciphertext_len = NULL
    \/ Decrypted /\ ev.a.plaintext_len = NULL
    \/ ev.a.tag_len < 16

\* the frame given to decrypt was shorter than the 12 bytes of an IV
ShortFrame == Decrypted /\ ev.a.ciphertext_len < 12

\* a decrypt call with arguments fit to be used, made after an encryption
DecryptedSealed ==
    /\ Decrypted
    /\ envelope.sealed # <<>>
    /\ ~BadArgument
    /\ ~ShortFrame

\* the call was given the frame and tag of the encryption, its key, its AAD
SameKey == Deref(ev.a.ctx).key = Sealed.key
SameAad == AadFed(ev.a.aad, ev.a.aad_len) = Sealed.aad
SameFrame == Deref(ev.a.ciphertext) = Sealed.frame
SameTag == Deref(ev.a.tag) = Sealed.tag

\* the bytes of the frame after the IV, which decryption writes as plaintext
BytesWritten == ev.a.ciphertext_len - IV_LEN

\* C17: decrypting the frame and tag of an encryption with another AAD
\* returns AUTH_FAILED, and every byte of the plaintext buffer that was
\* written is zero on return, the rest of the buffer and the length as they
\* were; so it is for a frame or tag tampered with and for another key
C17_MismatchFailsZeroed ==
    (DecryptedSealed /\ ~(SameKey /\ SameAad /\ SameFrame /\ SameTag)) =>
        /\ ev.rc = WC_CRYPTO_AUTH_FAILED
        /\ \A i \in 1..Len(envelope.buf.plaintext) :
              envelope.buf.plaintext[i] =
                  IF i <= BytesWritten THEN 0 ELSE ev.pre.plaintext[i]
        /\ envelope.buf.plaintext_len = ev.pre.plaintext_len

\* the frame and tag of a plaintext encrypted for "A" have been decrypted
\* with the same key for "B": bytes were written and are zero
C17_Witness ==
    /\ DecryptedSealed
    /\ SameKey /\ SameFrame /\ SameTag
    /\ Sealed.aad = <<65>>
    /\ AadFed(ev.a.aad, ev.a.aad_len) = <<66>>
    /\ BytesWritten = MaxPlainLen
    /\ ev.pre.plaintext # envelope.buf.plaintext
    /\ ev.rc = WC_CRYPTO_AUTH_FAILED

\* C18: the frame of an encryption is the IV and as many bytes as the
\* plaintext has; decrypting it with its tag, the same key and AAD returns
\* SUCCESS, the plaintext and its length those of the original
C18_RoundTrip ==
    /\ (Encrypted /\ ev.rc = WC_CRYPTO_SUCCESS) =>
          /\ envelope.buf.ciphertext_len = ev.a.plaintext_len + IV_LEN
          /\ Len(Sealed.frame) = Len(Sealed.plaintext) + IV_LEN
          /\ SubSeq(Sealed.frame, 1, IV_LEN) = Sealed.iv
    /\ (DecryptedSealed /\ SameKey /\ SameAad /\ SameFrame /\ SameTag) =>
          /\ ev.rc = WC_CRYPTO_SUCCESS
          /\ envelope.buf.plaintext_len = Len(Sealed.plaintext)
          /\ SubSeq(envelope.buf.plaintext, 1, envelope.buf.plaintext_len)
                = Sealed.plaintext

\* a plaintext that fills the buffer, encrypted for "A", has come back
C18_Witness ==
    /\ DecryptedSealed /\ SameKey /\ SameAad /\ SameFrame /\ SameTag
    /\ Sealed.aad = <<65>>
    /\ Len(Sealed.plaintext) = MaxPlainLen
    /\ Sealed.plaintext[1] # 0
    /\ Body(Sealed.frame, Len(Sealed.frame)) # Sealed.plaintext
    /\ ev.rc = WC_CRYPTO_SUCCESS

\* C19: a decrypt call with a null required argument, tag_len < 16 or a
\* frame shorter than 12 bytes returns INVALID_INPUT, and so does an encrypt
\* call with a null required argument or tag_len < 16; an encrypt call with
\* a plaintext longer than 50 MiB, its other arguments valid, returns
\* OVERFLOW; none of them writes a buffer or a length
C19_RejectedWritesNothing ==
    /\ (Decrypted /\ (BadArgument \/ ShortFrame)) =>
          (ev.rc = WC_CRYPTO_INVALID_INPUT /\ envelope.buf = ev.pre)
    /\ (Encrypted /\ BadArgument) =>
          (ev.rc = WC_CRYPTO_INVALID_INPUT /\ envelope.buf = ev.pre)
    /\ (Encrypted /\ ~BadArgument /\ ev.a.plaintext_len > 50 * 1024 * 1024) =>
          (ev.rc = WC_CRYPTO_OVERFLOW /\ envelope.buf = ev.pre)
    /\ (Encrypted \/ Decrypted) =>
          (ev.rc \in {WC_CRYPTO_INVALID_INPUT, WC_CRYPTO_OVERFLOW}
              => envelope.buf = ev.pre)

\* after an encryption a decrypt call with a tag_len of 15 has been rejected,
\* the buffers holding the frame and the tag as before
C19_Witness ==
    /\ Decrypted
    /\ envelope.sealed # <<>>
    /\ ev.a.ctx # NULL
    /\ ev.a.tag_len < 16
    /\ ~ShortFrame
    /\ ev.rc = WC_CRYPTO_INVALID_INPUT
    /\ envelope.buf = ev.pre

-----------------------------------------------------------------------------
(* Claims about the isolation log, checked under SpecDefense *)

IsPrefix(q, full) == Len(q) <= Len(full) /\ q = SubSeq(full, 1, Len(q))

\* the step is a call that reached respondToThreat, by processRequest or by
\* enforceDefense
RespondsInStep ==
    /\ ncalls' = ncalls + 1
    /\ ev'.op \in {"process", "defend"}
    /\ \E i \in 1..Len(ev'.calls) : ev'.calls[i] = "respondToThreat"

\* C21: no step removes or changes an entry of the isolation log; a step
\* that calls respondToThreat with a CRITICAL anomaly appends exactly one
\* entry, of the anomaly's client and level, and every other step, a response
\* at a lower level among them, leaves the log as it is
C21_IsolationLogAppendOnly ==
    [][/\ IsPrefix(isolated_clients, isolated_clients')
       /\ IF RespondsInStep /\ ev'.anomaly[1].level = CRITICAL
          THEN /\ Len(isolated_clients') = Len(isolated_clients) + 1
               /\ isolated_clients'[Len(isolated_clients')].client_id =
                      ev'.anomaly[1].client_id
               /\ isolated_clients'[Len(isolated_clients')].client_id = ev'.c
               /\ isolated_clients'[Len(isolated_clients')].level = CRITICAL
          ELSE isolated_clients' = isolated_clients]_vars

\* a request of "c1" was found CRITICAL and isolated "c1", the log holding
\* the entry enforceDefense had appended for "c2" before
C21_Witness ==
    /\ Processed
    /\ ev.anomaly # <<>>
    /\ ev.anomaly[1].level = CRITICAL
    /\ Len(isolated_clients) = 2
    /\ isolated_clients[1].client_id = "c2"
    /\ isolated_clients[2].client_id = "c1"

-----------------------------------------------------------------------------
(* Claims about the rapid-failure score over any order of timestamps,         *)
(* checked under SpecOrder                                                    *)

\* the behaviors of confidence above 0.8 stamped within the 60 000 ms
\* before t, wherever they stand in the window
FailuresInWindow(behaviors, t) ==
    Cardinality({i \in 1..Len(behaviors) :
                    /\ F32Gt(behaviors[i].confidence, FAIL_CONF)
                    /\ t - behaviors[i].timestamp <= 60000})

\* a behavior older than 60 000 ms stands after a younger one
OutOfOrder(behaviors, t) ==
    \E i, j \in 1..Len(behaviors) :
        /\ i < j
        /\ t - behaviors[j].timestamp > 60000
        /\ t - behaviors[i].timestamp <= 60000

\* C22 as claimed: the rapid-failure sub-score of a history of at least 3
\* behaviors is min(f / 5, 1), f the number of all behaviors of confidence
\* above 0.8 stamped within 60 000 ms of the clock's reading, in whatever
\* order they are stored; of a shorter history it is 0
C22_RapidCountsAllInWindow ==
    Analyzed =>
        RapidSubScore =
            IF Len(AnalyzedBehaviors) < 3 THEN F32Zero
            ELSE F32Min(F32Ratio(FailuresInWindow(AnalyzedBehaviors, ev.t1), 5),
                        F32One)

-----------------------------------------------------------------------------
(* Claims about the reset of the threshold manager, checked under SpecManager *)

\* C23 as claimed: after resetThresholds no hit count is left and
\* getThreshold returns for each of "rate_limit", "anomaly_score",
\* "failure_count" and "enumeration_attempts" the value the constructor
\* gave it: 100, 0.5, 5 and 20
C23_ResetRestoresDefaults ==
    ev.op = "reset" =>
        /\ hit_counts = EmptyMap
        /\ getThreshold(thresholds, "rate_limit") = F32FromInt(100)
        /\ getThreshold(thresholds, "anomaly_score") = F32Ratio(1, 2)
        /\ getThreshold(thresholds, "failure_count") = F32FromInt(5)
        /\ getThreshold(thresholds, "enumeration_attempts") = F32FromInt(20)

-----------------------------------------------------------------------------
(* Claims about concurrent calls of checkLimit, checked under SpecThreads *)

\* the threads whose call has returned, and those it returned true to
Returned == {t \in Threads : At(t, "returned")}
Granted == {t \in Threads : threads.at # <<>> /\ threads.at[t].result = <<TRUE>>}

\* C24: of N calls of checkLimit for one client made by N threads inside one
\* window, exactly min(N, what the window still grants) return true in
\* whatever order the threads run; at no time are more granted than the window
\* had left, and whenever no thread holds the mutex the count is the count the
\* calls started from plus the calls granted: no increment is lost
C24_ConcurrentGrantsExact ==
    threads.at # <<>> =>
        /\ Cardinality(Granted) <= threads.remaining
        /\ Returned = Threads =>
              Cardinality(Granted) = Min(MaxThreads, threads.remaining)
        /\ (threads.holder = <<>> /\ "c1" \in DOMAIN policies) =>
              policies["c1"].request_count =
                  threads.base + Cardinality({t \in Returned :
                                                threads.at[t].result = <<TRUE>>})

\* a second round of calls, made when the window had one grant left, has
\* returned: one thread was granted, the others denied
C24_Witness ==
    /\ ncalls = MaxBatches
    /\ Returned = Threads
    /\ threads.remaining = 1
    /\ threads.base = MaxThreads
    /\ Cardinality(Granted) = 1
    /\ policies["c1"].request_count = MaxThreads + 1

-----------------------------------------------------------------------------
(* Claims about what a request leaves in the mesh, checked under Spec *)

\* the history of the request's client_id as the request left it
RequestHistory == ClientHist(history, ev.c).behaviors

\* C25 as claimed: after a processRequest(c, m) on an initialized mesh that
\* passed the rate limit, m is the newest behavior in the history of c, and
\* the anomaly the verdict was taken from is the analysis of that history
C25_RecordedBeforeScored ==
    (Processed /\ ev.limit_ok) =>
        /\ Len(RequestHistory) >= 1
        /\ RequestHistory[Len(RequestHistory)] = ev.m
        /\ ev.anomaly = <<AnomalyAfterRecord>>

-----------------------------------------------------------------------------
(* Claims about the payload rule over time, checked under SpecCrowded *)

\* the history h holds an observation of a payload injection for client c
Poisoned(h, c) ==
    \E i \in 1..Len(ClientHist(h, c).behaviors) :
        ClientHist(h, c).behaviors[i].pattern = PAYLOAD_INJECTION

\* a step that is a processRequest on the initialized mesh
RequestStep == ncalls' = ncalls + 1 /\ ev'.op = "process" /\ ev'.ready

\* a record call now destroys the record of c: more than GC_CLIENTS clients
\* are held and that of c is stale
DestroysRecord(c) ==
    /\ HistorySize(history, bulk) > GC_CLIENTS
    /\ c \in DOMAIN history
    /\ IsStale(now, history[c].last_seen)

\* the window of c is full: the next record of c evicts its oldest behavior
WindowFull(c) == Len(ClientHist(history, c).behaviors) >= max_history_size

\* the observation of the request is the newest behavior of the client it names
ObservationRecorded ==
    LET bs == ClientHist(history', ev'.m.client_id).behaviors
    IN  Len(bs) >= 1 /\ bs[Len(bs)] = ev'.m

-----------------------------------------------------------------------------
(* Claims about the levels HIGH and CRITICAL, checked under SpecScan *)

\* analyzeBehavior(c) called now
AnalysisNow(c) == analyzeBehavior(history, c, now, now, now)

\* C27: every anomaly of level HIGH or above has PAYLOAD_INJECTION among its
\* detected patterns, a history without a payload scoring below HIGH; so a
\* processRequest whose anomaly is HIGH or CRITICAL returns false, and every
\* request denied at CRITICAL is denied by the payload rule as well
C27_HighMeansPayload ==
    /\ \A c \in Clients :
          /\ AnalysisNow(c).level >= HIGH => PayloadDetected(AnalysisNow(c))
          /\ ~Poisoned(history, c) => AnalysisNow(c).level < HIGH
    /\ (Processed /\ ev.limit_ok /\ ev.anomaly[1].level >= HIGH) =>
          /\ PayloadDetected(ev.anomaly[1])
          /\ ~ev.result

\* the first payload of a client that had scanned ScanLength resources was
\* scored CRITICAL, with the payload detected, and the request denied
C27_Witness ==
    /\ Processed /\ ev.limit_ok /\ ~ev.result
    /\ ev.anomaly[1].level = CRITICAL
    /\ PayloadDetected(ev.anomaly[1])
    /\ Len(RequestHistory) = ScanLength + 1
    /\ \A i \in 1..ScanLength : RequestHistory[i].pattern # PAYLOAD_INJECTION

-----------------------------------------------------------------------------
(* Claims about what a request leaves alone, checked under Spec *)

\* the policy of c was left as it was, or its window was reset at t
SameOrWindowReset(before, after, t) ==
    \/ after = before
    \/ after = [before EXCEPT !.request_count = 0, !.last_reset = t]

\* C28: a processRequest denied by the rate limiter returns false and changes
\* nothing but, possibly, the window of its client's policy, which is reset:
\* the observation is not recorded, the history, the thresholds, the hit
\* counts, the caps and the isolation log are as before, no policy is
\* created and request_count is not incremented
C28_DeniedByLimiterChangesNothing ==
    [][ (RequestStep /\ ~ev'.limit_ok) =>
          /\ ~ev'.result
          /\ UNCHANGED <<initialized, max_history_size, history, bulk,
                         default_rps, thresholds, hit_counts, isolated_clients>>
          /\ DOMAIN policies' = DOMAIN policies
          /\ ev'.c \in DOMAIN policies
          /\ \A k \in DOMAIN policies \ {ev'.c} : policies'[k] = policies[k]
          /\ SameOrWindowReset(policies[ev'.c], policies'[ev'.c], ev'.t1) ]_vars

\* a request was denied by the limiter alone, its client's count at the cap
\* and its observation in no history
C28_Witness ==
    /\ Processed /\ ~ev.limit_ok /\ ~ev.result
    /\ ev.calls = CallsToLimiter
    /\ policies[ev.c].request_count = policies[ev.c].requests_per_second
    /\ \A i \in 1..Len(ClientHist(history, ev.m.client_id).behaviors) :
          ClientHist(history, ev.m.client_id).behaviors[i] # ev.m

\* a step that is a processRequest on a mesh initialize() was not called on
EarlyRequestStep == ncalls' = ncalls + 1 /\ ev'.op = "process" /\ ~ev'.ready

\* C29: a processRequest made before initialize() returns true, calls no
\* member and changes no state of the mesh or of its components: no policy
\* is created or counted, no observation recorded, no threshold or hit count
\* changed, no client isolated
C29_UninitializedChangesNothing ==
    [][ EarlyRequestStep =>
          /\ ev'.result
          /\ ev'.calls = <<>>
          /\ UNCHANGED <<initialized, max_history_size, history, bulk,
                         default_rps, policies, thresholds, hit_counts,
                         isolated_clients>> ]_vars

\* MaxRequests requests were made and the last, an attack, was allowed; the
\* mesh is as its constructor left it
C29_Witness ==
    /\ Requested /\ ~ev.ready /\ ev.result
    /\ ev.m.pattern = PAYLOAD_INJECTION
    /\ ncalls = MaxRequests
    /\ Members = ConstructedMesh

=============================================================================
